---- MODULE Spec2Model ----
(***************************************************************************)
(* A model of the bore TCP tunnel: the NUL-delimited JSON codec            *)
(* (src/src/shared.rs), the server's connection handler, rendezvous map    *)
(* and port allocation (src/src/server.rs), the client (src/src/client.rs) *)
(* and the splicer (shared.rs proxy).                                      *)
(***************************************************************************)
EXTENDS Integers, Sequences, FiniteSets, TLC

VARIABLES
    cfg,        \* Server fields min_port, max_port, auth; and the host's busy ports
    server,     \* the server task: "none", "new", "listening", "failed" or "stopped"
    conn,       \* the connections to the control port and their handler tasks
    conns,      \* Server.conns, the rendezvous map: id -> visitor socket (0: absent)
    evictor,    \* the stale-evictor task of each id: "none", "sleeping", "done"
    visitor,    \* the visitors' sockets
    taken,      \* history: for each id, who obtained its socket from conns.remove
    cx,         \* codec harness: one Delimited stream, writer and reader ends
    dx,         \* handshake harness: the two handshakes over a bounded duplex
    cl,         \* the client: its control task, its data legs and their local sockets
    rpg         \* a RandomPortGenerator walked on its own, and what it has yielded

vars == <<cfg, server, conn, conns, evictor, visitor, taken, cx, dx, cl, rpg>>

\* All but the codec harness.
srvVars == <<cfg, server, conn, conns, evictor, visitor, taken, dx, cl, rpg>>

(***************************************************************************)
(* Small helpers.                                                          *)
(***************************************************************************)
Min(a, b) == IF a < b THEN a ELSE b

Range(s) == {s[i] : i \in 1..Len(s)}

HasPrefix(s, p) == Len(s) >= Len(p) /\ SubSeq(s, 1, Len(p)) = p

Drop(s, n) == SubSeq(s, n + 1, Len(s))

(***************************************************************************)
(* The wire form of the messages: serde_json's compact text of the         *)
(* externally tagged enums ClientMessage and ServerMessage, as bytes.      *)
(***************************************************************************)
\* Maximum byte length for a JSON frame in the stream.
MAX_FRAME_LENGTH == 256

\* The frame delimiter given to AnyDelimiterCodec (vec![0]).
NUL == 0

TxtHello == <<72, 101, 108, 108, 111>>
TxtAccept == <<65, 99, 99, 101, 112, 116>>
TxtAuthenticate == <<65, 117, 116, 104, 101, 110, 116, 105, 99, 97, 116, 101>>
TxtChallenge == <<67, 104, 97, 108, 108, 101, 110, 103, 101>>
TxtHeartbeat == <<72, 101, 97, 114, 116, 98, 101, 97, 116>>
TxtConnection == <<67, 111, 110, 110, 101, 99, 116, 105, 111, 110>>
TxtError == <<69, 114, 114, 111, 114>>

\* A message: the variant's name and its field (0 for Heartbeat).  A String
\* is the sequence of its UTF-8 bytes.
Msg(tag, val) == [tag |-> tag, val |-> val]

\* {"<tag>":
KeyOpen(tag) == <<123, 34>> \o tag \o <<34, 58>>

\* The decimal text of a u16.
RECURSIVE Digits(_)
Digits(n) == IF n < 10 THEN <<48 + n>> ELSE Digits(n \div 10) \o <<48 + (n % 10)>>

\* A Uuid is a 128-bit number.  One below 2^28 is that number here (the ids
\* of the model are 0..15); a greater one is the tuple of its 32 hex digits'
\* values.  UuidZeros is the text of Uuid 0 without its last digit.
UuidZeros ==
    <<48, 48, 48, 48, 48, 48, 48, 48, 45, 48, 48, 48, 48, 45, 48, 48, 48, 48, 45,
      48, 48, 48, 48, 45, 48, 48, 48, 48, 48, 48, 48, 48, 48, 48, 48>>

HexDigit(n) == IF n < 10 THEN 48 + n ELSE 87 + n

\* The hyphenated lower-case text serde writes for a Uuid below 2^28.
UuidText(id) ==
    SubSeq(UuidZeros, 1, 29) \o [k \in 1..7 |-> HexDigit((id \div (16 ^ (7 - k))) % 16)]

\* The element of a one-element set: The({F(x) : x \in {e}}) is F(e) with e
\* computed once.
The(S) == CHOOSE x \in S : TRUE

\* The index of the first byte of s that is in S, or 0.
FirstIn(s, S) ==
    IF \E i \in 1..Len(s) : s[i] \in S
    THEN CHOOSE i \in 1..Len(s) : s[i] \in S /\ \A j \in 1..(i - 1) : s[j] \notin S
    ELSE 0

\* What serde_json writes for one byte of a string: the quote, the backslash
\* and the control characters are escaped.
EscapeByte(b) ==
    CASE b = 34 -> <<92, 34>>
      [] b = 92 -> <<92, 92>>
      [] b = 8 -> <<92, 98>>
      [] b = 9 -> <<92, 116>>
      [] b = 10 -> <<92, 110>>
      [] b = 12 -> <<92, 102>>
      [] b = 13 -> <<92, 114>>
      [] b < 32 /\ b \notin {8, 9, 10, 12, 13} ->
            <<92, 117, 48, 48, HexDigit(b \div 16), HexDigit(b % 16)>>
      [] OTHER -> <<b>>

\* serde_json's string escaping.
RECURSIVE Escape(_)
Escape(s) ==
    LET i == FirstIn(s, {34, 92} \cup (0..31)) IN
    IF i = 0 THEN s
    ELSE SubSeq(s, 1, i - 1) \o EscapeByte(s[i]) \o Escape(Drop(s, i))

\* A string written between quotes as it is.
Quoted_Raw(s) == <<34>> \o s \o <<34>>

\* serde_json's text of a string.
Quoted(s) == <<34>> \o Escape(s) \o <<34>>

\* serde_json::to_string(&msg)
Encode(m) ==
    CASE m.tag = "Hello" -> KeyOpen(TxtHello) \o Digits(m.val) \o <<125>>
      [] m.tag = "Accept" -> KeyOpen(TxtAccept) \o Quoted(UuidText(m.val)) \o <<125>>
      [] m.tag = "Authenticate" -> KeyOpen(TxtAuthenticate) \o Quoted(m.val) \o <<125>>
      [] m.tag = "Challenge" -> KeyOpen(TxtChallenge) \o Quoted(UuidText(m.val)) \o <<125>>
      [] m.tag = "Connection" -> KeyOpen(TxtConnection) \o Quoted(UuidText(m.val)) \o <<125>>
      [] m.tag = "Error" -> KeyOpen(TxtError) \o Quoted(m.val) \o <<125>>
      [] m.tag = "Heartbeat" -> <<34>> \o TxtHeartbeat \o <<34>>

\* Delimited::send: the JSON text followed by the delimiter.
SendBytes(m) == Encode(m) \o <<NUL>>

ParseFail == [ok |-> FALSE, msg |-> [tag |-> "none", val |-> 0]]

ParseOk(tag, val) == [ok |-> TRUE, msg |-> [tag |-> tag, val |-> val]]

\* The readers below take the text s and the index i where they begin, and
\* return the value read and the index after it, or NoToken.
NoToken == [ok |-> FALSE, val |-> 0, next |-> 0]

Token(val, next) == [ok |-> TRUE, val |-> val, next |-> next]

\* The byte at index i, or -1 past the end.
Peek(s, i) == IF i <= Len(s) THEN s[i] ELSE -1

\* u16::MAX
U16_MAX == 65535

\* parse_whitespace: the index of the first byte from i on that is no JSON
\* whitespace (space, \t, \n, \r), Len(s) + 1 if there is none.
RECURSIVE ParseWhitespace(_, _)
ParseWhitespace(s, i) ==
    IF i <= Len(s) /\ s[i] \in {32, 9, 10, 13} THEN ParseWhitespace(s, i + 1) ELSE i

RECURSIVE NatOf(_)
NatOf(s) == IF s = <<>> THEN 0 ELSE 10 * NatOf(SubSeq(s, 1, Len(s) - 1)) + (s[Len(s)] - 48)

\* The index after the digits that begin at i.
RECURSIVE DigitsEnd(_, _)
DigitsEnd(s, i) == IF i <= Len(s) /\ s[i] \in 48..57 THEN DigitsEnd(s, i + 1) ELSE i

\* The digits of s from j up to e read as u16: no leading zero, no fraction
\* or exponent after them, at most 65535.
U16At(s, j, e) ==
    IF e > j /\ e - j <= 5 /\ (e = j + 1 \/ s[j] # 48) /\ Peek(s, e) \notin {46, 69, 101}
    THEN The({IF n <= U16_MAX THEN Token(n, e) ELSE NoToken : n \in {NatOf(SubSeq(s, j, e - 1))}})
    ELSE NoToken

\* A JSON number read as u16: digits with no leading zero, no sign, fraction
\* or exponent, at most 65535.
ParseU16(s, i) ==
    The({The({U16At(s, j, e) : e \in {DigitsEnd(s, j)}}) : j \in {ParseWhitespace(s, i)}})

HexValue(b) ==
    IF b \in 48..57 THEN b - 48
    ELSE IF b \in 97..102 THEN b - 87
    ELSE IF b \in 65..70 THEN b - 55
    ELSE 16

\* decode_hex_escape: the number written by the four hex digits at i, or -1.
DecodeHexEscape(s, i) ==
    IF i + 3 <= Len(s)
    THEN The({IF \A k \in 1..4 : h[k] < 16
              THEN 4096 * h[1] + 256 * h[2] + 16 * h[3] + h[4] ELSE -1 :
                h \in {[k \in 1..4 |-> HexValue(s[i + k - 1])]}})
    ELSE -1

\* The UTF-8 bytes of a code point.
Utf8Encode(n) ==
    IF n < 128 THEN <<n>>
    ELSE IF n < 2048 THEN <<192 + (n \div 64), 128 + (n % 64)>>
    ELSE IF n < 65536 THEN <<224 + (n \div 4096), 128 + ((n \div 64) % 64), 128 + (n % 64)>>
    ELSE <<240 + (n \div 262144), 128 + ((n \div 4096) % 64), 128 + ((n \div 64) % 64),
           128 + (n % 64)>>

\* The length of the UTF-8 sequence that begins with byte c at index j of b,
\* or 0 when the bytes there are none (the ranges of str::from_utf8).
Utf8Width(b, j, c) ==
    IF c < 128 THEN 1
    ELSE IF c \in 194..223 THEN IF Peek(b, j + 1) \in 128..191 THEN 2 ELSE 0
    ELSE IF c \in 224..239
    THEN IF /\ Peek(b, j + 1) \in (IF c = 224 THEN 160 ELSE 128)..(IF c = 237 THEN 159 ELSE 191)
            /\ Peek(b, j + 2) \in 128..191
         THEN 3 ELSE 0
    ELSE IF c \in 240..244
    THEN IF /\ Peek(b, j + 1) \in (IF c = 240 THEN 144 ELSE 128)..(IF c = 244 THEN 143 ELSE 191)
            /\ Peek(b, j + 2) \in 128..191 /\ Peek(b, j + 3) \in 128..191
         THEN 4 ELSE 0
    ELSE 0

\* str::from_utf8 succeeds on the bytes of b from index i on.
RECURSIVE Utf8Valid(_, _)
Utf8Valid(b, i) ==
    \A j \in {i + FirstIn(Drop(b, i - 1), 128..255) - 1} :
        j < i \/ \A w \in {Utf8Width(b, j, b[j])} : w > 0 /\ Utf8Valid(b, j + w)

\* parse_escape: the byte a one-letter escape stands for, or -1.
ParseEscape(b) ==
    CASE b \in {34, 92, 47} -> b
      [] b = 98 -> 8
      [] b = 102 -> 12
      [] b = 110 -> 10
      [] b = 114 -> 13
      [] b = 116 -> 9
      [] OTHER -> -1

\* The \u escape at i with the number n of its hex digits, and m that of the
\* \u escape after it: a code point, or the two halves of a surrogate pair.
\* Fails on hex digits missing and on a surrogate that is not half of a pair.
HexEscape(s, i, n, m) ==
    IF n < 0 \/ (n >= 56320 /\ n <= 57343) THEN NoToken
    ELSE IF n < 55296 \/ n > 56319 THEN Token(Utf8Encode(n), i + 6)
    ELSE IF Peek(s, i + 6) = 92 /\ Peek(s, i + 7) = 117 /\ m >= 56320 /\ m <= 57343
    THEN Token(Utf8Encode(65536 + (n - 55296) * 1024 + (m - 56320)), i + 12)
    ELSE NoToken

\* The escape that begins with the backslash at i: the bytes it stands for
\* and the index after it.
EscapeAt(s, i) ==
    The({IF b >= 0 THEN Token(<<b>>, i + 2)
         ELSE IF Peek(s, i + 1) = 117
         THEN The({HexEscape(s, i, n, m) :
                    n \in {DecodeHexEscape(s, i + 2)}, m \in {DecodeHexEscape(s, i + 8)}})
         ELSE NoToken : b \in {ParseEscape(Peek(s, i + 1))}})

\* The bytes read so far followed by the rest of the string r.
StrJoin(bytes, r) == IF r.ok THEN Token(bytes \o r.val, r.next) ELSE NoToken

\* parse_str from the byte after the opening quote: the bytes up to the
\* closing quote with the escapes replaced.  Fails on a control character, on
\* the end of the text and on a bad escape.
RECURSIVE ParseStr(_, _)
ParseStr(s, p) ==
    The({IF i < p THEN NoToken
         ELSE IF s[i] = 34 THEN Token(SubSeq(s, p, i - 1), i + 1)
         ELSE IF s[i] = 92
         THEN The({IF e.ok
                   THEN The({StrJoin(SubSeq(s, p, i - 1) \o e.val, r) : r \in {ParseStr(s, e.next)}})
                   ELSE NoToken : e \in {EscapeAt(s, i)}})
         ELSE NoToken : i \in {p - 1 + FirstIn(Drop(s, p - 1), {34, 92} \cup (0..31))}})

\* A JSON string read as a String (or as the name of a variant): the text
\* between the quotes, which has to be UTF-8.
ParseString(s, i) ==
    The({IF Peek(s, j) = 34
         THEN The({IF r.ok /\ Utf8Valid(r.val, 1) THEN r ELSE NoToken : r \in {ParseStr(s, j + 1)}})
         ELSE NoToken : j \in {ParseWhitespace(s, i)}})

\* The 32 hex digits of the text of a Uuid: the text itself, or the
\* hyphenated form h with its hyphens taken out; <<>> when it is neither.
UuidDigits(text, h) ==
    IF Len(text) = 32 THEN text
    ELSE IF h # <<>> /\ \A k \in {9, 14, 19, 24} : h[k] = 45
    THEN SubSeq(h, 1, 8) \o SubSeq(h, 10, 13) \o SubSeq(h, 15, 18) \o SubSeq(h, 20, 23)
            \o SubSeq(h, 25, 36)
    ELSE <<>>

\* The Uuid of 32 hex digits' values.
UuidNumber(h) ==
    IF \A k \in 1..25 : h[k] = 0
    THEN 16777216 * h[26] + 1048576 * h[27] + 65536 * h[28] + 4096 * h[29]
            + 256 * h[30] + 16 * h[31] + h[32]
    ELSE h

\* Uuid::parse_str: 32 hex digits, or the hyphenated form, bare, in braces
\* or after urn:uuid:.
UuidParse(text) ==
    The({IF Len(d) = 32 /\ \A k \in 1..32 : HexValue(d[k]) < 16
         THEN [ok |-> TRUE, val |-> UuidNumber([k \in 1..32 |-> HexValue(d[k])])]
         ELSE [ok |-> FALSE, val |-> 0] :
            d \in {UuidDigits(text,
                    IF Len(text) = 36 THEN text
                    ELSE IF Len(text) = 38 /\ text[1] = 123 /\ text[38] = 125
                    THEN SubSeq(text, 2, 37)
                    ELSE IF Len(text) = 45
                            /\ SubSeq(text, 1, 9) = <<117, 114, 110, 58, 117, 117, 105, 100, 58>>
                    THEN SubSeq(text, 10, 45)
                    ELSE <<>>)}})

\* A JSON string read as a Uuid.
ParseUuid(s, i) ==
    The({IF t.ok
         THEN The({IF u.ok THEN Token(u.val, t.next) ELSE NoToken : u \in {UuidParse(t.val)}})
         ELSE NoToken : t \in {ParseString(s, i)}})

\* null, the map form of a unit variant's value.
ParseUnit(s, i) ==
    The({IF j + 3 <= Len(s) /\ SubSeq(s, j, j + 3) = <<110, 117, 108, 108>>
         THEN Token(0, j + 4) ELSE NoToken : j \in {ParseWhitespace(s, i)}})

\* The variants of the two enums: name, and what the variant holds.
ClientVariants ==
    {[txt |-> TxtAuthenticate, tag |-> "Authenticate", kind |-> "String"],
     [txt |-> TxtHello, tag |-> "Hello", kind |-> "u16"],
     [txt |-> TxtAccept, tag |-> "Accept", kind |-> "Uuid"]}

ServerVariants ==
    {[txt |-> TxtChallenge, tag |-> "Challenge", kind |-> "Uuid"],
     [txt |-> TxtHello, tag |-> "Hello", kind |-> "u16"],
     [txt |-> TxtHeartbeat, tag |-> "Heartbeat", kind |-> "unit"],
     [txt |-> TxtConnection, tag |-> "Connection", kind |-> "Uuid"],
     [txt |-> TxtError, tag |-> "Error", kind |-> "String"]}

\* end(): nothing but whitespace from i on.
AtEnd(s, i) == ParseWhitespace(s, i) > Len(s)

\* The value of variant v read at i.
VariantValue(s, v, i) ==
    CASE v.kind = "u16" -> ParseU16(s, i)
      [] v.kind = "String" -> ParseString(s, i)
      [] v.kind = "Uuid" -> ParseUuid(s, i)
      [] v.kind = "unit" -> ParseUnit(s, i)

\* The map form after the key of variant v: a colon at c, the value, the
\* closing brace and the end.
MapValue(s, v, c) ==
    IF Peek(s, c) = 58
    THEN The({IF r.ok
              THEN The({IF Peek(s, e) = 125 /\ AtEnd(s, e + 1)
                        THEN ParseOk(v.tag, r.val) ELSE ParseFail :
                            e \in {ParseWhitespace(s, r.next)}})
              ELSE ParseFail : r \in {VariantValue(s, v, c + 1)}})
    ELSE ParseFail

\* The enum after its name key was read, in the map form or as a bare string
\* (unit variants only).
EnumAt(s, variants, map, key) ==
    IF key.ok /\ \E v \in variants : v.txt = key.val
    THEN The({IF map THEN MapValue(s, v, ParseWhitespace(s, key.next))
              ELSE IF v.kind = "unit" /\ AtEnd(s, key.next) THEN ParseOk(v.tag, 0)
              ELSE ParseFail : v \in {w \in variants : w.txt = key.val}})
    ELSE ParseFail

\* serde_json::from_slice for an externally tagged enum: {"<name>":<value>},
\* or "<name>" for a unit variant, with whitespace allowed around every
\* token and nothing else after the value.
FromSlice(s, variants) ==
    The({IF Peek(s, j) \in {123, 34}
         THEN The({EnumAt(s, variants, Peek(s, j) = 123, key) :
                    key \in {ParseString(s, IF Peek(s, j) = 123 THEN j + 1 ELSE j)}})
         ELSE ParseFail : j \in {ParseWhitespace(s, 1)}})

\* serde_json::from_slice::<ClientMessage>
DecodeClient(s) == FromSlice(s, ClientVariants)

\* serde_json::from_slice::<ServerMessage>
DecodeServer(s) == FromSlice(s, ServerVariants)

(***************************************************************************)
(* Framing: tokio_util's Framed<_, AnyDelimiterCodec> as configured by     *)
(* Delimited::new (delimiter 0, max_length MAX_FRAME_LENGTH).              *)
(***************************************************************************)
\* The index of the first delimiter among the first n bytes, or 0.
FirstNul(buf, n) ==
    IF \E i \in 1..n : buf[i] = NUL
    THEN CHOOSE i \in 1..n : buf[i] = NUL /\ \A j \in 1..(i - 1) : buf[j] # NUL
    ELSE 0

\* A decoder that waits for a delimiter however long the buffer grows.
FrameDecode_NoLimit(buf) ==
    LET pos == FirstNul(buf, Len(buf))
    IN IF pos > 0 THEN [kind |-> "frame", frame |-> SubSeq(buf, 1, pos - 1), rest |-> Drop(buf, pos)]
       ELSE [kind |-> "none", frame |-> <<>>, rest |-> buf]

\* AnyDelimiterCodec::decode on the read buffer: a frame (delimiter stripped)
\* and the bytes after it, an error once more than max_length bytes hold no
\* delimiter, or nothing yet.
FrameDecode(buf) ==
    LET Split(b, pos) ==
            IF pos > 0 THEN [kind |-> "frame", frame |-> SubSeq(b, 1, pos - 1), rest |-> Drop(b, pos)]
            ELSE IF Len(b) > MAX_FRAME_LENGTH THEN [kind |-> "error", frame |-> <<>>, rest |-> b]
            ELSE [kind |-> "none", frame |-> <<>>, rest |-> b]
        Scan(b) == The({Split(b, pos) : pos \in {FirstNul(b, Min(MAX_FRAME_LENGTH + 1, Len(b)))}})
    IN The({Scan(b) : b \in {buf}})

\* AnyDelimiterCodec::decode_eof: at end of stream the bytes left in the
\* buffer, if any, are returned as a last frame.
FrameDecodeEof(buf) ==
    LET Last(b, d) ==
            IF d.kind # "none" THEN d
            ELSE IF b = <<>> THEN [kind |-> "eof", frame |-> <<>>, rest |-> <<>>]
            ELSE [kind |-> "frame", frame |-> b, rest |-> <<>>]
    IN The({Last(buf, d) : d \in {FrameDecode(buf)}})

\* serde_json::from_slice::<Option<T>>(frame) reads None: the frame is null
\* and nothing but whitespace before and after it (recv asks for its return
\* type, Option<T>).
OptionNone(s) ==
    The({u.ok /\ AtEnd(s, u.next) : u \in {ParseUnit(s, 1)}})

\* Delimited::recv once the codec has produced d: Ok(Some(msg)), Ok(None) or
\* Err.  Ok(None) is the end of the stream, and a frame that is null.
RecvResult(d, typ) ==
    CASE d.kind = "error" -> [kind |-> "err", msg |-> ParseFail.msg]
      [] d.kind = "eof" -> [kind |-> "none", msg |-> ParseFail.msg]
      [] d.kind = "frame" ->
            IF OptionNone(d.frame) THEN [kind |-> "none", msg |-> ParseFail.msg]
            ELSE The({IF p.ok THEN [kind |-> "msg", msg |-> p.msg]
                      ELSE [kind |-> "err", msg |-> ParseFail.msg] :
                         p \in {IF typ = "client" THEN DecodeClient(d.frame)
                                ELSE DecodeServer(d.frame)}})

(***************************************************************************)
(* RandomPortGenerator (server.rs): a 16-bit shift register walked until   *)
(* it shows a port of the range.                                           *)
(***************************************************************************)
\* RandomPortGenerator::new
GenNew(initial_state) == [state |-> initial_state, consumed |-> 0]

\* RandomPortGenerator::done
GenDone(g) == g.consumed = U16_MAX \/ g.state = 0

BitAt(x, i) == (x \div (2 ^ i)) % 2

\* RandomPortGenerator::step: the generator after the step, and the value returned.
GenStep(g) ==
    IF GenDone(g) THEN [g |-> g, ret |-> 0]
    ELSE LET bit == (BitAt(g.state, 0) + BitAt(g.state, 2) + BitAt(g.state, 3)
                        + BitAt(g.state, 5)) % 2
             state == ((g.state \div 2) + bit * 32768) % 65536
         IN [g |-> [state |-> state, consumed |-> g.consumed + 1], ret |-> state]

\* One pass of the while loop of next: st is "run" while the loop goes on,
\* "some" once the sample is in the range, "none" once the walk is done.
SampleBody(r, lo, hi) ==
    IF ~(r.sample < lo \/ r.sample > hi) THEN [r EXCEPT !.st = "some"]
    ELSE LET t == GenStep(r.g) IN
         [g |-> t.g, sample |-> t.ret, st |-> IF GenDone(t.g) THEN "none" ELSE "run"]

\* Runs the loop body until st leaves "run": n rounds of sixteen to the power
\* level passes each, which bounds the evaluation depth and not the loop (the
\* loop ends within U16_MAX + 1 passes).
RECURSIVE SampleLoop(_, _, _, _, _)
SampleLoop(level, r, n, lo, hi) ==
    IF n = 0 \/ r.st # "run" THEN r
    ELSE SampleLoop(level,
                    IF level = 0 THEN SampleBody(r, lo, hi)
                    ELSE SampleLoop(level - 1, r, 16, lo, hi),
                    n - 1, lo, hi)

\* Iterator::next for RandomPortGenerator: Some(port) or None, and the
\* generator afterwards.
GenNext(g, lo, hi) ==
    IF g.consumed = U16_MAX THEN [some |-> FALSE, port |-> 0, g |-> g]
    ELSE LET r == SampleLoop(3, [g |-> g, sample |-> g.state, st |-> "run"], 17, lo, hi) IN
         IF r.st = "some" THEN [some |-> TRUE, port |-> r.sample, g |-> GenStep(r.g).g]
         ELSE [some |-> FALSE, port |-> 0, g |-> r.g]

\* No generator is walked.
RpgIdle == [st |-> "idle", min_port |-> 0, max_port |-> 0, g |-> GenNew(0),
            yielded |-> <<>>]

(***************************************************************************)
(* Authenticator (crate::auth, used by server.rs and client.rs): the tag   *)
(* is the hex text of a MAC of the nonce under a key made from the secret. *)
(* The MAC is one byte here, different for every (secret, nonce).          *)
(***************************************************************************)
Mac(secret, nonce) == <<(16 * secret + nonce) % 256>>

HexEncode(bytes) ==
    [i \in 1..(2 * Len(bytes)) |->
        IF i % 2 = 1 THEN HexDigit(bytes[(i + 1) \div 2] \div 16)
        ELSE HexDigit(bytes[i \div 2] % 16)]

\* hex decoding: fails on an odd length and on a byte that is no hex digit.
HexDecode(text) ==
    IF Len(text) % 2 = 0 /\ \A i \in 1..Len(text) : HexValue(text[i]) < 16
    THEN [ok |-> TRUE,
          val |-> [i \in 1..(Len(text) \div 2) |->
                      16 * HexValue(text[2 * i - 1]) + HexValue(text[2 * i])]]
    ELSE [ok |-> FALSE, val |-> <<>>]

\* Authenticator::answer
Answer(secret, nonce) == HexEncode(Mac(secret, nonce))

\* Authenticator::validate
Validate(secret, nonce, tag) ==
    LET d == HexDecode(tag) IN d.ok /\ d.val = Mac(secret, nonce)

(***************************************************************************)
(* The server (server.rs).                                                 *)
(***************************************************************************)
\* Connections to the control port.
NConn == 3

\* Visitors that dial a public port; each gets its own id.
MaxVisitors == 2

\* Writes a peer makes on one connection.
MaxWrites == 2

Conns == 1..NConn

Visitors == 1..MaxVisitors

\* Uuid::new_v4 never repeats: the id of a visitor's entry is the visitor's number.
Ids == Visitors

\* The number of bind attempts the documentation allows for Hello(0).
MaxAttempts == 150

\* The port ranges given to Server::new, each with the host's ports that
\* other processes hold.
Ranges ==
    {[min_port |-> 1, max_port |-> 2, busy |-> {2}],
     [min_port |-> 0, max_port |-> 1, busy |-> {}],
     [min_port |-> 5000, max_port |-> 3000, busy |-> {}]}

\* Who connects to the control port, in this order: "host" asks for a port,
\* "leg" is a data leg of the host's client sending Accept, "stranger" is a
\* connection of another party that sends Accept as a leg does (the server
\* has no secret, or the party has it), "any" is any peer at all.  A "rival"
\* is a host that does not wait for the hosts before it.
Casts ==
    {<<"any">>,
     [c \in 1..NConn |-> IF c = 1 THEN "host" ELSE IF c = 2 THEN "leg" ELSE "stranger"]}

\* Option<&str> secrets: 0 is None, a positive number is Some(that secret).
Secrets == {0, 1}

\* The ports the host hands out when asked to bind port 0.
EphemeralPorts == {32768, 60999}

\* rng.gen_range(min_port..=max_port): any port of the range.
InitialStates(lo, hi) == lo..hi

\* A port requested by Hello that is inside the range, and one that is outside.
PortIn == cfg.max_port

PortOut == IF cfg.max_port < U16_MAX THEN cfg.max_port + 1 ELSE cfg.min_port - 1

NoGen == GenNew(0)

ConnIdle ==
    [peer |-> "idle", writes |-> 0, wire |-> <<>>, fin |-> FALSE, rbuf |-> <<>>,
     out |-> <<>>, pc |-> "none", hs |-> "none", res |-> "", req |-> 0,
     random |-> FALSE, gen |-> NoGen, cand |-> 0, port |-> 0, took |-> 0, sock |-> 0,
     overrun |-> FALSE, got |-> "", bound |-> 0, down |-> <<>>, tries |-> 0,
     flush |-> <<>>, junk |-> <<>>, ann |-> 0, rst |-> FALSE, prst |-> FALSE]

\* A visitor's socket: rx is what the visitor has received, tx what it has
\* written and the server has not read yet, sent all it has written, left
\* whether the visitor has closed its end, rst whether it had received bytes
\* when it closed, which it may have left unread.
VisitorIdle ==
    [st |-> "idle", port |-> 0, rx |-> <<>>, tx |-> <<>>, sent |-> <<>>, left |-> FALSE,
     rst |-> FALSE]

\* A data leg of the client (handle_connection for one id) and the socket to
\* the local target it opens: id is the id it was spawned for, rd counts the
\* server's frames read, rbuf is the read buffer of its Delimited; lrx is
\* what the local target has received, ltx what it has written and the leg
\* has not read yet, lsent all it has written, lrst whether it had received
\* bytes when it closed.  The legs are numbered in the order in which they
\* are spawned.
LegIdle ==
    [st |-> "none", id |-> 0, rd |-> 0, rbuf |-> <<>>, res |-> "",
     lst |-> "none", lrx |-> <<>>, ltx |-> <<>>, lsent |-> <<>>, flush |-> <<>>,
     lrst |-> FALSE]

\* The client before Client::new: rd counts the server's frames read on the
\* control connection.
ClIdle ==
    [st |-> "idle", secret |-> 0, port |-> 0, rd |-> 0, rbuf |-> <<>>, remote_port |-> 0,
     res |-> "",
     leg |-> [v \in Visitors |-> LegIdle]]

\* One end of the duplex of the handshake harness: st is where its handshake
\* stands, wbuf what Framed has still to write, rbuf its read buffer.
EndIdle == [st |-> "none", wbuf |-> <<>>, rbuf |-> <<>>]

\* The harness before the handshakes start: s2c and c2s are the bytes in
\* flight towards the client and towards the server, waited records that a
\* write found the duplex full.
DxIdle ==
    [nonce |-> 0, csecret |-> 0, s2c |-> <<>>, c2s |-> <<>>, srv |-> EndIdle, cli |-> EndIdle,
     waited |-> FALSE, tag |-> <<>>, verdict |-> "none"]

SrvInit ==
    /\ \E r \in Ranges, sec \in Secrets, cast \in Casts :
        cfg = [min_port |-> r.min_port, max_port |-> r.max_port, busy |-> r.busy,
               secret |-> sec, cast |-> cast, nvis |-> MaxVisitors]
    /\ server = "none"
    /\ conn = [c \in Conns |-> ConnIdle]
    /\ conns = [id \in Ids |-> 0]
    /\ evictor = [id \in Ids |-> "none"]
    /\ visitor = [v \in Visitors |-> VisitorIdle]
    /\ taken = [id \in Ids |-> <<>>]

\* The ports on which a hosting session holds a listener.
Held == {conn[c].port : c \in Conns} \ {0}

\* A bind that succeeds on a port another session listens on.
Free_Shared(p) == p \notin cfg.busy

\* TcpListener::bind(("0.0.0.0", p)) succeeds on a port nobody holds.
Free(p) == p \notin cfg.busy /\ p \notin Held

\* A remove that hands out the value and leaves the entry in the map.
MapRemove_Leaves(m, id) == [hit |-> m[id] # 0, sock |-> m[id], map |-> m]

\* DashMap::remove: whether the key was there, its value, and the map afterwards.
MapRemove(m, id) == [hit |-> m[id] # 0, sock |-> m[id], map |-> [m EXCEPT ![id] = 0]]

\* A hosting loop that sends Connection(id) with the entry not yet in the map.
MapInsert_NotYet(m, id, sock) == m

\* DashMap::insert
MapInsert(m, id, sock) == [m EXCEPT ![id] = sock]

\* Every send writes its frame.
Sent(out, m) == Append(out, m)

\* How many messages with the tag have been sent on a connection.
Count(k, tag) == Cardinality({i \in 1..Len(k.out) : k.out[i].tag = tag})

\* More than MAX_FRAME_LENGTH bytes and no delimiter where decode looks for one.
Overrun(buf) == Len(buf) > MAX_FRAME_LENGTH /\ FirstNul(buf, MAX_FRAME_LENGTH + 1) = 0

\* Whether a write on the stream can succeed: always while the peer holds
\* its end; after the peer closed a write may succeed (the peer shut down
\* its writing half only, or its reset has not come back) or fail, however
\* many writes went before.
SendOutcomes(k) == IF k.peer = "closed" THEN {TRUE, FALSE} ELSE {TRUE}

\* What the read of a socket yields once the other end has closed and every
\* byte before the close was read: the end of the stream (FALSE), or, when
\* the other end closed with bytes it had received and may not have read,
\* the error of a connection reset (TRUE).
ReadEnds(reset) == IF reset THEN {FALSE, TRUE} ELSE {FALSE}

\* The codec's result for a read that failed: Framed hands on the I/O error.
ReadError == [kind |-> "error", frame |-> <<>>, rest |-> <<>>]

\* Framed::poll_next under Delimited::recv: a frame already in the buffer is
\* returned without reading; otherwise the bytes that have arrived are read
\* and decoded; at end of stream decode_eof has the last word, and a read
\* that fails (failed tells which the read at the end is) is an error.
\* kind is "pending" when recv has to wait for more bytes.  overrun records
\* that the buffer decoded held more than MAX_FRAME_LENGTH bytes before any
\* delimiter.
Poll(k, failed) ==
    The({The({[k |-> [k EXCEPT !.rbuf = d.rest, !.wire = IF d0.kind # "none" THEN @ ELSE <<>>,
                               !.overrun = Overrun(IF d0.kind # "none" THEN k.rbuf ELSE buf)],
               r |-> IF d.kind = "none" THEN [kind |-> "pending", msg |-> ParseFail.msg]
                     ELSE RecvResult(d, "client"),
               frameError |-> d.kind = "error"] :
                d \in {IF d0.kind # "none" THEN d0
                       ELSE IF k.wire # <<>> THEN FrameDecode(buf)
                       ELSE IF k.fin THEN (IF failed THEN ReadError ELSE FrameDecodeEof(buf))
                       ELSE [kind |-> "none", frame |-> <<>>, rest |-> buf]}}) :
            d0 \in {FrameDecode(k.rbuf)}, buf \in {k.rbuf \o k.wire}})

\* A handler that tells its peer of a missing connection before it returns.
Finish_TellsPeer(k, res) ==
    [k EXCEPT !.pc = "done", !.res = res, !.port = 0,
              !.rbuf = <<>>, !.wire = <<>>, !.fin = FALSE, !.writes = 0,
              !.gen = NoGen, !.cand = 0, !.ann = 0,
              !.rst = k.peer = "open" /\ k.wire # <<>>, !.prst = FALSE,
              !.out = IF res = "missing connection" THEN Append(@, Msg("Error", <<>>)) ELSE @]

\* The handler returns: the stream is dropped with what it holds unread, and
\* so is the listener.  rst records that bytes of the peer had not been read
\* from the socket, and the peer is there to read on: a socket closed with
\* such bytes resets the connection.
Finish(k, res) ==
    [k EXCEPT !.pc = "done", !.res = res, !.port = 0,
              !.rbuf = <<>>, !.wire = <<>>, !.fin = FALSE, !.writes = 0,
              !.gen = NoGen, !.cand = 0, !.ann = 0,
              !.rst = k.peer = "open" /\ k.wire # <<>>, !.prst = FALSE]

\* The server drops the socket of a visitor: nobody is left to read what the
\* visitor's own close has left.
Shut(s) == [s EXCEPT !.st = "closed", !.rst = FALSE]

\* Visitors waiting in the backlog of a listener that is dropped are reset.
DropBacklog(vs, port) ==
    [v \in Visitors |->
        IF port # 0 /\ vs[v].st = "queued" /\ vs[v].port = port
        THEN Shut(vs[v]) ELSE vs[v]]

\* Server::new(min_port, max_port, secret) builds the server from its
\* arguments as they are.
ServerNew ==
    /\ server = "none"
    /\ server' = "new"
    /\ UNCHANGED <<cfg, conn, conns, evictor, visitor, taken, cx, dx, cl, rpg>>

\* Server::listen binds the control port; a bind failure ends the server.
ServerListen ==
    /\ server = "new"
    /\ server' \in {"listening", "failed"}
    /\ UNCHANGED <<cfg, conn, conns, evictor, visitor, taken, cx, dx, cl, rpg>>

\* --- the peers of the control port -------------------------------------
\* What a peer writes in one go: the frames of ClientMessage values (a good
\* and a bad tag among them), more than MAX_FRAME_LENGTH bytes with no
\* delimiter, a frame without its delimiter, a lone delimiter, and the frame
\* of null.
Junk == [i \in 1..(MAX_FRAME_LENGTH + 1) |-> 42]

Partial == Encode(Msg("Hello", 0))

\* The frame of the JSON text null.
NullFrame == <<110, 117, 108, 108, NUL>>

\* What the peer cast as "any" may write next: any message, bytes that are
\* no frame, the tag of another secret, or the right tag to begin with.
Menu(c) ==
    {SendBytes(Msg("Hello", p)) : p \in {0, PortIn, PortOut}}
        \cup {SendBytes(Msg("Accept", id)) : id \in Ids}
        \cup {Junk, Partial, <<NUL>>, NullFrame, SendBytes(Msg("Authenticate", Answer(2, c)))}
        \cup (IF conn[c].writes = 0
              THEN {SendBytes(Msg("Authenticate", Answer(1, c)))} ELSE {})

\* What a "host", a "leg" or a "stranger" writes on connecting: the answer
\* to the challenge if the server has a secret (the nonce of connection c is
\* c), then its one message; with a server that has no secret a host may go
\* on with an Accept and a stranger with a Hello.
Script(c) ==
    LET auth == IF cfg.secret # 0 THEN SendBytes(Msg("Authenticate", Answer(cfg.secret, c)))
                ELSE <<>>
        Also(bytes) == IF cfg.secret = 0 THEN {bytes} ELSE {}
    IN  IF cfg.cast[c] = "rival"
        THEN {auth \o SendBytes(Msg("Hello", p)) : p \in {0, PortIn}}
        ELSE IF cfg.cast[c] = "host"
        THEN {auth \o SendBytes(Msg("Hello", p)) : p \in {0, PortIn, PortOut}}
                \cup Also(SendBytes(Msg("Hello", 0)) \o SendBytes(Msg("Accept", 2)))
        ELSE IF cfg.cast[c] = "leg"
        THEN {auth \o SendBytes(Msg("Accept", id)) : id \in Ids}
        ELSE {auth \o SendBytes(Msg("Accept", id)) : id \in Ids}
                \cup Also(SendBytes(Msg("Accept", 1)) \o SendBytes(Msg("Hello", 0)))

\* A handler that has dispatched its first message, or has returned.
Settled(k) == k.pc \in {"loop", "wait", "announce", "splice", "done"}

\* Connections are opened in the order of their numbers, the later ones once
\* the handler of the first has dispatched.
PeerConnect(c) ==
    /\ server = "listening"
    /\ c <= Len(cfg.cast)
    /\ conn[c].peer = "idle"
    /\ \A b \in 1..(c - 1) : conn[b].peer # "idle"
    /\ c > 1 => Settled(conn[1]) \/ cfg.cast[c] = "rival"
    /\ IF cfg.cast[c] = "any"
       THEN conn' = [conn EXCEPT ![c].peer = "open"]
       ELSE \E bytes \in Script(c) :
                conn' = [conn EXCEPT ![c].peer = "open", ![c].wire = bytes]
    /\ UNCHANGED <<cfg, server, conns, evictor, visitor, taken, cx, dx, cl, rpg>>

\* The peer cast as "any" writes (what it writes after the server dropped the
\* stream reaches nobody).
PeerWrite(c) ==
    /\ conn[c].peer = "open"
    /\ cfg.cast[c] = "any"
    /\ conn[c].writes < MaxWrites
    /\ conn[c].pc # "done"
    /\ \E bytes \in Menu(c) :
        conn' = [conn EXCEPT ![c].wire = @ \o bytes, ![c].writes = @ + 1]
    /\ UNCHANGED <<cfg, server, conns, evictor, visitor, taken, cx, dx, cl, rpg>>

\* A "host" or the peer cast as "any" closes its end; a "leg" or a "stranger"
\* keeps its end open until it is spliced.  The peer may have left unread
\* what the server has written to it.
PeerClose(c) ==
    /\ conn[c].peer = "open"
    /\ cfg.cast[c] \in {"leg", "stranger"} => conn[c].pc = "splice"
    /\ conn[c].pc # "done"
    /\ conn' = [conn EXCEPT ![c].peer = "closed", ![c].fin = TRUE, ![c].rst = FALSE,
                             ![c].prst = conn[c].pc # "done"
                                            /\ (conn[c].out # <<>> \/ conn[c].down # <<>>)]
    /\ UNCHANGED <<cfg, server, conns, evictor, visitor, taken, cx, dx, cl, rpg>>

\* A visitor dials a public port on which a session listens.
VisitorConnect(v) ==
    /\ v <= cfg.nvis
    /\ visitor[v].st = "idle"
    /\ IF v = 1 THEN TRUE ELSE visitor[v - 1].st # "idle"
    /\ \E p \in Held : visitor' = [visitor EXCEPT ![v].st = "queued", ![v].port = p]
    /\ UNCHANGED <<cfg, server, conn, conns, evictor, taken, cx, dx, cl, rpg>>

\* A server that asks nobody for the secret.
NeedsHandshake_Never(secret) == FALSE

\* if let Some(auth) = &self.auth: the handshake runs when the server has a
\* secret (0 stands for None).
NeedsHandshake(secret) == secret # 0

\* A splice that starts with the buffered bytes written twice.
ReadBufFlush_Twice(rx, read_buf) == rx \o read_buf \o read_buf

\* A splice that starts without the bytes the codec has buffered.
ReadBufFlush_Skipped(rx, read_buf) == rx

\* stream2.write_all(&parts.read_buf): what the codec has read beyond the
\* Accept frame goes to the visitor first.
ReadBufFlush(rx, read_buf) == rx \o read_buf

\* Whether write_all(&read_buf) can succeed: always with nothing to write
\* and while the other end of the socket is there; with bytes to write to a
\* socket whose other end is gone it may succeed or fail.
WriteAllOutcomes(read_buf, gone) == IF read_buf # <<>> /\ gone THEN {TRUE, FALSE} ELSE {TRUE}

\* --- Server::listen, the accept loop ------------------------------------
\* listener.accept() and the spawned handler up to its first read: with a
\* secret, server_handshake sends the challenge.
ServerAccept(c) ==
    /\ server = "listening"
    /\ conn[c].peer # "idle" /\ conn[c].pc = "none"
    /\ IF ~NeedsHandshake(cfg.secret) THEN conn' = [conn EXCEPT ![c].pc = "first"]
       ELSE \E ok \in SendOutcomes(conn[c]) :
            conn' = [conn EXCEPT ![c] =
                        IF ok THEN [@ EXCEPT !.out = Sent(@, Msg("Challenge", c)), !.pc = "handshake"]
                        ELSE Finish([@ EXCEPT !.hs = "failed"], "send error")]
    /\ UNCHANGED <<cfg, server, conns, evictor, visitor, taken, cx, dx, cl, rpg>>

\* listener.accept().await? with a connection waiting and the call failing
\* (the host is out of descriptors, say): listen returns the error and the
\* loop is over; the handlers spawned so far run on.
AcceptFail(c) ==
    /\ server = "listening"
    /\ conn[c].peer # "idle" /\ conn[c].pc = "none"
    /\ server' = "stopped"
    /\ UNCHANGED <<cfg, conn, conns, evictor, visitor, taken, cx, dx, cl, rpg>>

\* The text of the Error sent for each way a handler fails (the labels are
\* the values of res and hs), in ASCII.
ErrorText(label) ==
    CASE label = "frame error" ->
            \* "frame error, invalid byte length"
            <<102, 114, 97, 109, 101, 32, 101, 114, 114, 111, 114, 44, 32, 105, 110, 118, 97, 108, 105, 100, 32, 98, 121, 116, 101, 32, 108, 101, 110, 103, 116, 104>>
      [] label = "recv error" ->
            \* "unable to parse message"
            <<117, 110, 97, 98, 108, 101, 32, 116, 111, 32, 112, 97, 114, 115, 101, 32, 109, 101, 115, 115, 97, 103, 101>>
      [] label = "timed out" ->
            \* "timed out waiting for initial message"
            <<116, 105, 109, 101, 100, 32, 111, 117, 116, 32, 119, 97, 105, 116, 105, 110, 103, 32, 102, 111, 114, 32, 105, 110, 105, 116, 105, 97, 108, 32, 109, 101, 115, 115, 97, 103, 101>>
      [] label = "invalid secret" ->
            \* "invalid secret"
            <<105, 110, 118, 97, 108, 105, 100, 32, 115, 101, 99, 114, 101, 116>>
      [] label = "no secret was provided" ->
            \* "no secret was provided"
            <<110, 111, 32, 115, 101, 99, 114, 101, 116, 32, 119, 97, 115, 32, 112, 114, 111, 118, 105, 100, 101, 100>>
      [] label = "port already in use" ->
            \* "port already in use"
            <<112, 111, 114, 116, 32, 97, 108, 114, 101, 97, 100, 121, 32, 105, 110, 32, 117, 115, 101>>
      [] label = "no ports available" ->
            \* format!("no ports available in range [{}, {}]", min_port, max_port)
            <<110, 111, 32, 112, 111, 114, 116, 115, 32, 97, 118, 97, 105, 108, 97, 98, 108, 101, 32, 105, 110, 32, 114, 97, 110, 103, 101, 32, 91>>
                \o Digits(cfg.min_port) \o <<44, 32>> \o Digits(cfg.max_port) \o <<93>>

\* A handler that returns on a failure without a word to the client.
SendError_Silent(k, label) == {Finish(k, label)}

\* stream.send(ServerMessage::Error(text)).await?; return Ok(())
SendError(k, label) ==
    {Finish([k EXCEPT !.out = IF ok THEN Sent(@, Msg("Error", ErrorText(label))) ELSE @], label) :
        ok \in SendOutcomes(k)}

\* Server::handle_connection from the match on the first message on: k0 is
\* the connection after the read, r what recv returned.  got and req record
\* the message matched: its tag, and the port or the id it carries.
Dispatch(c, k0, r, frameError) ==
    LET k == IF r.kind = "msg"
             THEN [k0 EXCEPT !.got = r.msg.tag,
                             !.req = IF r.msg.tag \in {"Hello", "Accept"} THEN r.msg.val ELSE @]
             ELSE k0
    IN
    CASE r.kind = "err" ->
            /\ conn' = [conn EXCEPT ![c] =
                          Finish(k, IF frameError THEN "frame error" ELSE "parse error")]
            /\ UNCHANGED <<conns, visitor, taken>>
      [] r.kind = "none" ->
            /\ conn' = [conn EXCEPT ![c] = Finish(k, "unexpected EOF")]
            /\ UNCHANGED <<conns, visitor, taken>>
      [] r.kind = "msg" /\ r.msg.tag = "Authenticate" ->
            /\ conn' = [conn EXCEPT ![c] = Finish(k, "unexpected authenticate")]
            /\ UNCHANGED <<conns, visitor, taken>>
      [] r.kind = "msg" /\ r.msg.tag = "Hello" ->
            LET port == r.msg.val
                h == k
            IN /\ IF port # 0 /\ (port < cfg.min_port \/ port > cfg.max_port)
                  THEN conn' = [conn EXCEPT ![c] = Finish(h, "not in range")]
                  ELSE IF port # 0
                  THEN conn' = [conn EXCEPT ![c] = [h EXCEPT !.pc = "bind", !.cand = port]]
                  ELSE IF cfg.min_port > cfg.max_port
                  THEN \* gen_range panics on an empty range; the task ends
                       conn' = [conn EXCEPT ![c] = Finish(h, "panic")]
                  ELSE \E s \in InitialStates(cfg.min_port, cfg.max_port) :
                       \E n \in {GenNext(GenNew(s), cfg.min_port, cfg.max_port)} :
                       IF n.some
                       THEN conn' = [conn EXCEPT ![c] =
                                [h EXCEPT !.pc = "bind", !.random = TRUE,
                                          !.cand = n.port, !.gen = n.g]]
                       ELSE \E e \in SendError(h, "no ports available") :
                                conn' = [conn EXCEPT ![c] = e]
               /\ UNCHANGED <<conns, visitor, taken>>
      [] r.kind = "msg" /\ r.msg.tag = "Accept" ->
            LET id == r.msg.val
                m == IF id \in Ids THEN MapRemove(conns, id)
                     ELSE [hit |-> FALSE, sock |-> 0, map |-> conns]
            IN IF m.hit
               THEN \E ok \in WriteAllOutcomes(k.rbuf, visitor[m.sock].left) :
                    /\ conns' = m.map
                    /\ taken' = [taken EXCEPT ![id] = Append(@, c)]
                    /\ IF ok
                       THEN /\ visitor' = [visitor EXCEPT ![m.sock].st = "spliced",
                                                          ![m.sock].rx = ReadBufFlush(@, k.rbuf)]
                            /\ conn' = [conn EXCEPT ![c] =
                                          [k EXCEPT !.pc = "splice", !.took = id, !.sock = m.sock,
                                                    !.rbuf = <<>>, !.flush = k.rbuf]]
                       ELSE \* write_all(&parts.read_buf).await? returns the error:
                            \* no proxy, both sockets are dropped
                            /\ visitor' = [visitor EXCEPT ![m.sock] = Shut(@)]
                            /\ conn' = [conn EXCEPT ![c] =
                                          Finish([k EXCEPT !.took = id, !.sock = m.sock],
                                                 "write error")]
               ELSE /\ conn' = [conn EXCEPT ![c] = Finish(k, "missing connection")]
                    /\ UNCHANGED <<conns, visitor, taken>>

\* auth.server_handshake(&mut stream) once its recv_timeout has returned r:
\* Ok only for Authenticate(tag) with a valid tag.
HandshakeResult(c, r) ==
    IF r.kind = "msg" /\ r.msg.tag = "Authenticate"
    THEN IF Validate(cfg.secret, c, r.msg.val) THEN "ok" ELSE "invalid secret"
    ELSE IF r.kind = "err" THEN "recv error"
    ELSE "no secret was provided"

\* A handler that goes on whatever the handshake returned.
HandshakePassed_Always(result) == TRUE

\* What the handler does with the result of the handshake: TRUE to go on to
\* the first message, FALSE to send the error and return.
HandshakePassed(result) == result = "ok"

\* The handler waiting in server_handshake: the reply arrives.  When the
\* handshake succeeds the handler goes straight on to read the first
\* message, and is done with it too if the buffer already holds it.
HandshakeRecv(c) ==
    /\ conn[c].pc = "handshake"
    /\ \E p \in {Poll(conn[c], failed) : failed \in ReadEnds(conn[c].prst)} :
       IF p.r.kind = "pending"
       THEN /\ conn[c].wire # <<>>
            /\ conn' = [conn EXCEPT ![c] = p.k]
            /\ UNCHANGED <<conns, visitor, taken>>
       ELSE LET result == HandshakeResult(c, p.r) IN
            IF HandshakePassed(result)
            THEN \E q \in {Poll([p.k EXCEPT !.pc = "first", !.hs = result], failed) :
                                    failed \in ReadEnds(conn[c].prst)} :
                    IF q.r.kind = "pending"
                    THEN /\ conn' = [conn EXCEPT ![c] = q.k]
                         /\ UNCHANGED <<conns, visitor, taken>>
                    ELSE Dispatch(c, q.k, q.r, q.frameError)
            ELSE /\ \E e \in SendError([p.k EXCEPT !.hs = result,
                                                   !.got = IF p.r.kind = "msg"
                                                           THEN p.r.msg.tag ELSE @],
                                       IF p.frameError THEN "frame error" ELSE result) :
                        conn' = [conn EXCEPT ![c] = e]
                 /\ UNCHANGED <<conns, visitor, taken>>
    /\ UNCHANGED <<cfg, server, evictor, cx, dx, cl, rpg>>

\* recv_timeout in server_handshake runs out of time.
HandshakeTimeout(c) ==
    /\ conn[c].pc = "handshake"
    /\ \E e \in SendError([conn[c] EXCEPT !.hs = "timed out"], "timed out") :
            conn' = [conn EXCEPT ![c] = e]
    /\ UNCHANGED <<cfg, server, conns, evictor, visitor, taken, cx, dx, cl, rpg>>

\* The handler waiting for the first message: bytes or the end of the stream arrive.
FirstRecv(c) ==
    /\ conn[c].pc = "first"
    /\ \E p \in {Poll(conn[c], failed) : failed \in ReadEnds(conn[c].prst)} :
       IF p.r.kind = "pending"
       THEN /\ conn[c].wire # <<>>
            /\ conn' = [conn EXCEPT ![c] = p.k]
            /\ UNCHANGED <<conns, visitor, taken>>
       ELSE Dispatch(c, p.k, p.r, p.frameError)
    /\ UNCHANGED <<cfg, server, evictor, cx, dx, cl, rpg>>

\* A first read with no timeout.
FirstTimeout_Never(c) == FALSE /\ UNCHANGED vars

\* stream.recv_timeout().await? runs out of time.
FirstTimeout(c) ==
    /\ conn[c].pc = "first"
    /\ conn' = [conn EXCEPT ![c] = Finish(@, "timed out")]
    /\ UNCHANGED <<cfg, server, conns, evictor, visitor, taken, cx, dx, cl, rpg>>

\* One turn of the port search: TcpListener::bind on the candidate (tries
\* counts the calls).  Port 0 makes the host choose a port.  A failed bind
\* of a drawn port moves to the generator's next port; the listener once
\* bound, the for loop is left and its generator dropped, and the handler
\* holds the port from here until it returns.
Bind(c) ==
    /\ conn[c].pc = "bind"
    /\ LET k == [conn[c] EXCEPT !.tries = @ + 1]
           ports == IF k.cand = 0 THEN {p \in EphemeralPorts : Free(p)}
                    ELSE IF Free(k.cand) THEN {k.cand} ELSE {}
       IN IF ports # {}
          THEN \E port \in ports :
                conn' = [conn EXCEPT ![c] =
                    [k EXCEPT !.pc = "hello", !.port = port, !.bound = port, !.gen = NoGen]]
          ELSE IF k.random
          THEN \E n \in {GenNext(k.gen, cfg.min_port, cfg.max_port)} :
               IF n.some
               THEN conn' = [conn EXCEPT ![c] = [k EXCEPT !.cand = n.port, !.gen = n.g]]
               ELSE \E e \in SendError(k, "no ports available") :
                        conn' = [conn EXCEPT ![c] = e]
          ELSE \E e \in SendError(k, "port already in use") : conn' = [conn EXCEPT ![c] = e]
    /\ UNCHANGED <<cfg, server, conns, evictor, visitor, taken, cx, dx, cl, rpg>>

\* stream.send(ServerMessage::Hello(port)).await? with the port of the
\* listener just bound: a send that fails ends the handler, and the listener
\* is dropped with it.
SendHello(c) ==
    /\ conn[c].pc = "hello"
    /\ \E ok \in SendOutcomes(conn[c]) :
        IF ok
        THEN /\ conn' = [conn EXCEPT ![c] =
                          [@ EXCEPT !.out = Sent(@, Msg("Hello", conn[c].port)), !.pc = "loop"]]
             /\ UNCHANGED visitor
        ELSE /\ conn' = [conn EXCEPT ![c] = Finish(@, "send error")]
             /\ visitor' = DropBacklog(visitor, conn[c].port)
    /\ UNCHANGED <<cfg, server, conns, evictor, taken, cx, dx, cl, rpg>>

\* Most timeouts of the accept of one session that are followed.
MaxTimeouts == 1

\* A hosting loop that reads the next message of its connection after a quiet
\* accept.
AcceptTimeout_ReadsAgain(c) ==
    /\ conn[c].pc = "wait"
    /\ conn' = [conn EXCEPT ![c].pc = "first"]
    /\ UNCHANGED <<cfg, server, conns, evictor, visitor, taken, cx, dx, cl, rpg>>

\* A hosting loop that goes to its accept without sending the Heartbeat.
Heartbeat_Skipped(c) ==
    /\ conn[c].pc = "loop"
    /\ conn' = [conn EXCEPT ![c].pc = "wait"]
    /\ UNCHANGED <<cfg, server, conns, evictor, visitor, taken, cx, dx, cl, rpg>>

\* The top of the hosting loop: a Heartbeat whose send fails ends the session.
Heartbeat(c) ==
    /\ conn[c].pc = "loop"
    /\ \E ok \in SendOutcomes(conn[c]) :
        IF ok
        THEN /\ conn' = [conn EXCEPT ![c] = [@ EXCEPT !.out = Sent(@, Msg("Heartbeat", 0)), !.pc = "wait"]]
             /\ UNCHANGED visitor
        ELSE /\ conn' = [conn EXCEPT ![c] = Finish(@, "ok")]
             /\ visitor' = DropBacklog(visitor, conn[c].port)
    /\ UNCHANGED <<cfg, server, conns, evictor, taken, cx, dx, cl, rpg>>

\* timeout(TIMEOUT, listener.accept()) elapses with no visitor in the
\* backlog (the accept is polled before the timer): the loop goes round.
AcceptTimeout(c) ==
    /\ conn[c].pc = "wait"
    /\ \A v \in Visitors : ~(visitor[v].st = "queued" /\ visitor[v].port = conn[c].port)
    /\ conn' = [conn EXCEPT ![c].pc = "loop"]
    /\ UNCHANGED <<cfg, server, conns, evictor, visitor, taken, cx, dx, cl, rpg>>

\* let (stream2, addr) = result?; with accept returning an error (the
\* visitor reset its connection while it waited, the host is out of
\* descriptors): the handler returns the error, nothing is inserted or
\* sent, and the listener is dropped with the control stream.
AcceptError(c) ==
    /\ conn[c].pc = "wait"
    /\ conn' = [conn EXCEPT ![c] = Finish(@, "accept error")]
    /\ visitor' = DropBacklog(visitor, conn[c].port)
    /\ UNCHANGED <<cfg, server, conns, evictor, taken, cx, dx, cl, rpg>>

\* The passes of a hosting loop that are followed: the loop goes round as
\* long as its sends succeed, and MaxTimeouts of its quiet accepts are
\* followed.
Followed(c) == Count(conn[c], "Heartbeat") <= MaxTimeouts

\* A hosting loop that spawns no evictor.
SpawnEvictor_Never(ev, id) == ev

\* tokio::spawn of the task that sleeps 10 s and then removes the id.
SpawnEvictor(ev, id) == [ev EXCEPT ![id] = "sleeping"]

\* A visitor is accepted: its socket goes into the map under a fresh id and
\* the evictor of the id is spawned; the handler has Connection(id) to send
\* (ann is the id).
AcceptVisitor(c, v) ==
    /\ conn[c].pc = "wait"
    /\ visitor[v].st = "queued" /\ visitor[v].port = conn[c].port
    /\ LET id == v IN
       /\ conns' = MapInsert(conns, id, v)
       /\ evictor' = SpawnEvictor(evictor, id)
       /\ visitor' = [visitor EXCEPT ![v].st = "held"]
       /\ conn' = [conn EXCEPT ![c].pc = "announce", ![c].ann = id]
    /\ UNCHANGED <<cfg, server, taken, cx, dx, cl, rpg>>

\* stream.send(ServerMessage::Connection(id)).await? after the insert and
\* the spawn: a send that fails ends the session with its error, and the
\* entry stays in the map for whoever takes it first.
SendConnection(c) ==
    /\ conn[c].pc = "announce"
    /\ \E ok \in SendOutcomes(conn[c]) :
        IF ok
        THEN /\ conn' = [conn EXCEPT ![c] =
                          [@ EXCEPT !.out = Sent(@, Msg("Connection", conn[c].ann)),
                                    !.pc = "loop", !.ann = 0]]
             /\ UNCHANGED visitor
        ELSE /\ conn' = [conn EXCEPT ![c] = Finish(@, "send error")]
             /\ visitor' = DropBacklog(visitor, conn[c].port)
    /\ UNCHANGED <<cfg, server, conns, evictor, taken, cx, dx, cl, rpg>>

\* The evictor of an id wakes from its sleep and removes the entry if it is
\* still there; the socket it gets is dropped.
Evict(id) ==
    /\ evictor[id] = "sleeping"
    /\ LET m == MapRemove(conns, id) IN
       /\ conns' = m.map
       /\ IF m.hit
          THEN /\ taken' = [taken EXCEPT ![id] = Append(@, 0)]
               /\ visitor' = [visitor EXCEPT ![m.sock] = Shut(@)]
          ELSE UNCHANGED <<taken, visitor>>
    /\ evictor' = [evictor EXCEPT ![id] = "done"]
    /\ UNCHANGED <<cfg, server, conn, cx, dx, cl, rpg>>

\* What io::copy returns when its read comes to the end of the source: the
\* source has closed and every byte of it was read and written on.  Ok(())
\* when the read returns the end of the stream, the error when it returns a
\* connection reset, as it can from a source that closed with bytes it had
\* received and may not have read.
CopyDone(closed, reset, pending) ==
    IF closed /\ pending = <<>>
    THEN {IF failed THEN "proxy error" ELSE "ok" : failed \in ReadEnds(reset)}
    ELSE {}

\* What io::copy returns when a write fails, which a write can once the
\* destination is gone and there are bytes to write to it: the error.
CopyFails(gone, pending) == IF gone /\ pending # <<>> THEN {"proxy error"} ELSE {}

\* A proxy that returns only when both of its copies have ended.
SpliceEnd_WaitsForBoth(c) ==
    /\ conn[c].pc = "splice"
    /\ CopyDone(conn[c].fin, conn[c].prst, conn[c].wire) # {}
    /\ CopyDone(visitor[conn[c].sock].left, visitor[conn[c].sock].rst,
                visitor[conn[c].sock].tx) # {}
    /\ conn' = [conn EXCEPT ![c] = Finish(@, "ok")]
    /\ visitor' = [visitor EXCEPT ![conn[c].sock] = Shut(@)]
    /\ UNCHANGED <<cfg, server, conns, evictor, taken, cx, dx, cl, rpg>>

\* What proxy returns on the server, the result of the copy that completes
\* first, the one from the data connection to the visitor or the one from
\* the visitor to the data connection.
SpliceResults(c) ==
    CopyDone(conn[c].fin, conn[c].prst, conn[c].wire)
        \cup CopyFails(visitor[conn[c].sock].left, conn[c].wire)
        \cup CopyDone(visitor[conn[c].sock].left, visitor[conn[c].sock].rst,
                      visitor[conn[c].sock].tx)
        \cup CopyFails(conn[c].fin, visitor[conn[c].sock].tx)

\* proxy returns once one of its copies has completed, at the end of its
\* stream or on a failed read or write: the handler returns what proxy
\* returned and both sockets are dropped.
SpliceEnd(c) ==
    /\ conn[c].pc = "splice"
    /\ \E res \in SpliceResults(c) : conn' = [conn EXCEPT ![c] = Finish(@, res)]
    /\ visitor' = [visitor EXCEPT ![conn[c].sock] = Shut(@)]
    /\ UNCHANGED <<cfg, server, conns, evictor, taken, cx, dx, cl, rpg>>

(***************************************************************************)
(* The data plane on the server's side: proxy (shared.rs) between the data *)
(* connection and the visitor's socket, and the visitor.                   *)
(***************************************************************************)
\* Most payload bytes a visitor or a local target writes.
MaxBytes == 2

\* The n-th payload byte of visitor v, and of the local target reached for v.
VisitorByte(v, n) == 100 + 10 * v + n

LocalByte(v, n) == 200 + 10 * v + n

\* A visitor writes a byte; the connection is established as soon as it is
\* in the listener's backlog.
VisitorWrite(v) ==
    /\ visitor[v].st \in {"queued", "held", "spliced"} /\ ~visitor[v].left
    /\ Len(visitor[v].sent) < MaxBytes
    /\ LET b == VisitorByte(v, Len(visitor[v].sent) + 1) IN
       visitor' = [visitor EXCEPT ![v].tx = Append(@, b), ![v].sent = Append(@, b)]
    /\ UNCHANGED <<cfg, server, conn, conns, evictor, taken, cx, dx, cl, rpg>>

\* A visitor closes its end, having read what it has received or not.
VisitorClose(v) ==
    /\ visitor[v].st \in {"queued", "held", "spliced"} /\ ~visitor[v].left
    /\ visitor' = [visitor EXCEPT ![v].left = TRUE, ![v].rst = visitor[v].rx # <<>>]
    /\ UNCHANGED <<cfg, server, conn, conns, evictor, taken, cx, dx, cl, rpg>>

\* io::copy(&mut s2_read, &mut s1_write): bytes read from the visitor's
\* socket are written to the data connection.
SrvCopyUp(c) ==
    /\ conn[c].pc = "splice"
    /\ LET v == conn[c].sock IN
       /\ visitor[v].tx # <<>>
       /\ \E k \in {1, Len(visitor[v].tx)} :
            /\ conn' = [conn EXCEPT ![c].down = @ \o SubSeq(visitor[v].tx, 1, k)]
            /\ visitor' = [visitor EXCEPT ![v].tx = Drop(@, k)]
    /\ UNCHANGED <<cfg, server, conns, evictor, taken, cx, dx, cl, rpg>>

\* io::copy(&mut s1_read, &mut s2_write): bytes read from the data
\* connection are written to the visitor's socket.
SrvCopyDown(c) ==
    /\ conn[c].pc = "splice"
    /\ conn[c].wire # <<>>
    /\ \E k \in {1, Len(conn[c].wire)} :
        /\ visitor' = [visitor EXCEPT ![conn[c].sock].rx = @ \o SubSeq(conn[c].wire, 1, k)]
        /\ conn' = [conn EXCEPT ![c].wire = Drop(@, k)]
    /\ UNCHANGED <<cfg, server, conns, evictor, taken, cx, dx, cl, rpg>>

(***************************************************************************)
(* The client (client.rs): Client::new, Client::listen and, for each       *)
(* Connection(id), handle_connection with its socket to the local target.  *)
(* The client's control connection is connection 1, the data leg for id v  *)
(* is connection v + 1.                                                    *)
(***************************************************************************)
LegConn(v) == v + 1

\* The bytes of the server's frames on connection c from frame n + 1 on.
RECURSIVE Frames(_, _)
Frames(out, n) == IF n >= Len(out) THEN <<>> ELSE SendBytes(out[n + 1]) \o Frames(out, n + 1)

\* What the server has written on connection c and the client has not read:
\* the frames after the first n, then the bytes of the splice.
Incoming(c, n) == Frames(conn[c].out, n) \o conn[c].down

\* Delimited::recv on the client's end of connection c, with rbuf in the
\* read buffer and arrived the bytes that have arrived since: Framed returns
\* a buffered frame, or reads what has arrived and decodes; the stream ends
\* once the server's handler has returned, and with a connection reset
\* (failed) it ends in the error of the read, after the frames that arrived
\* before.  read tells whether the socket was read.
ClRecv(c, rbuf, arrived, failed) ==
    The({The({The({[kind |-> r.kind, msg |-> r.msg, rbuf |-> d.rest, read |-> d0.kind = "none"] :
                    r \in {IF d.kind = "none" THEN [kind |-> "pending", msg |-> ParseFail.msg]
                           ELSE RecvResult(d, "server")}}) :
                d \in {IF d0.kind # "none" THEN d0
                       ELSE IF conn[c].pc # "done" THEN FrameDecode(buf)
                       ELSE IF ~failed THEN FrameDecodeEof(buf)
                       ELSE IF d1.kind # "none" THEN d1
                       ELSE ReadError}}) :
            d0 \in {FrameDecode(rbuf)}, buf \in {rbuf \o arrived},
            d1 \in {FrameDecode(rbuf \o arrived)}})

\* The connection after the client's recv: what was read is gone from it.
AfterRead(k, read) == IF read THEN [k EXCEPT !.down = <<>>] ELSE k

\* Frames read after a recv.
ReadTo(c, n, read) == IF read THEN Len(conn[c].out) ELSE n

\* The connection after the client has written bytes (written after the
\* server dropped the stream, they reach nobody).
Written(k, bytes) == IF k.pc = "done" THEN k ELSE [k EXCEPT !.wire = @ \o bytes]

\* A client whose dropped stream stays open.
Dropped_StaysOpen(k, n) == k

\* The client drops its end of the stream, having read n of the server's
\* frames.  prst records that bytes of the server had not been read from the
\* socket, and the server's handler is there to read on: a socket closed
\* with such bytes resets the connection.
Dropped(k, n) ==
    [k EXCEPT !.peer = "closed", !.fin = TRUE, !.rst = FALSE,
              !.prst = k.pc # "done" /\ Frames(k.out, n) \o k.down # <<>>]

\* Whether a write of the client can succeed: always while the server holds
\* its end.
ClSendOutcomes(c) == IF conn[c].pc = "done" THEN {TRUE, FALSE} ELSE {TRUE}

\* Client::new_with_tls, connect_with_timeout(to, CONTROL_PORT): refused
\* when the server does not listen.
ClientConnect ==
    /\ cfg.cast # <<>> /\ cfg.cast[1] = "client"
    /\ cl.st = "idle"
    /\ IF server = "listening"
       THEN /\ conn' = [conn EXCEPT ![1].peer = "open"]
            /\ cl' = [cl EXCEPT !.st = IF cl.secret # 0 THEN "handshake" ELSE "hello"]
       ELSE /\ cl' = [cl EXCEPT !.st = "failed", !.res = "could not connect"]
            /\ UNCHANGED conn
    /\ UNCHANGED <<cfg, server, conns, evictor, visitor, taken, cx, dx, rpg>>

\* What client_handshake makes of the first frame: the tag to send for
\* Challenge(nonce), a failure for anything else.
HandshakeReply(secret, r) ==
    IF r.kind = "msg" /\ r.msg.tag = "Challenge"
    THEN [ok |-> TRUE, tag |-> Answer(secret, r.msg.val)]
    ELSE [ok |-> FALSE, tag |-> <<>>]

\* auth.client_handshake on the control connection.
ClientHandshake ==
    /\ cl.st = "handshake"
    /\ \E arrived \in {Incoming(1, cl.rd)} : \E r \in {ClRecv(1, cl.rbuf, arrived, failed) : failed \in ReadEnds(conn[1].rst)} :
       LET h == HandshakeReply(cl.secret, r)
           k == AfterRead(conn[1], r.read)
           c1 == [cl EXCEPT !.rd = ReadTo(1, cl.rd, r.read), !.rbuf = r.rbuf]
       IN /\ r.kind # "pending"
          /\ \E ok \in ClSendOutcomes(1) :
                IF h.ok /\ ok
                THEN /\ cl' = [c1 EXCEPT !.st = "hello"]
                     /\ conn' = [conn EXCEPT ![1] =
                                    Written(k, SendBytes(Msg("Authenticate", h.tag)))]
                ELSE /\ cl' = [c1 EXCEPT !.st = "failed",
                                         !.res = IF h.ok THEN "send error"
                                                 ELSE "no challenge received"]
                     /\ conn' = [conn EXCEPT ![1] = Dropped(k, c1.rd)]
    /\ UNCHANGED <<cfg, server, conns, evictor, visitor, taken, cx, dx, rpg>>

\* stream.send(ClientMessage::Hello(port)).await?
ClientSendHello ==
    /\ cl.st = "hello"
    /\ \E ok \in ClSendOutcomes(1) :
        IF ok
        THEN /\ cl' = [cl EXCEPT !.st = "initial"]
             /\ conn' = [conn EXCEPT ![1] = Written(@, SendBytes(Msg("Hello", cl.port)))]
        ELSE /\ cl' = [cl EXCEPT !.st = "failed", !.res = "send error"]
             /\ conn' = [conn EXCEPT ![1] = Dropped(@, cl.rd)]
    /\ UNCHANGED <<cfg, server, conns, evictor, visitor, taken, cx, dx, rpg>>

\* A client that takes whatever comes first for the server's Hello.
InitialReply_AnyIsHello(r) == [st |-> "ready", remote_port |-> 0, res |-> ""]

\* A client that lets a Heartbeat or a Connection pass for the Hello.
InitialReply_Lenient(r) ==
    IF r.kind = "msg" /\ r.msg.tag \in {"Hello", "Heartbeat", "Connection"}
    THEN [st |-> "ready", remote_port |-> r.msg.val, res |-> ""]
    ELSE [st |-> "failed", remote_port |-> 0, res |-> "server error"]

\* The match on stream.recv_timeout().await? in new_with_tls: the client's
\* state, the remote port and the error.
InitialReply(r) ==
    CASE r.kind = "msg" /\ r.msg.tag = "Hello" ->
            [st |-> "ready", remote_port |-> r.msg.val, res |-> ""]
      [] r.kind = "msg" /\ r.msg.tag = "Error" ->
            [st |-> "failed", remote_port |-> 0, res |-> "server error"]
      [] r.kind = "msg" /\ r.msg.tag = "Challenge" ->
            [st |-> "failed", remote_port |-> 0, res |-> "server requires authentication"]
      [] r.kind = "msg" /\ r.msg.tag \notin {"Hello", "Error", "Challenge"} ->
            [st |-> "failed", remote_port |-> 0, res |-> "unexpected initial non-hello message"]
      [] r.kind = "none" -> [st |-> "failed", remote_port |-> 0, res |-> "unexpected EOF"]
      [] r.kind = "err" -> [st |-> "failed", remote_port |-> 0, res |-> "recv error"]

\* new_with_tls from the reply to Hello on: Ok(Client) or an error.
ClientInitial ==
    /\ cl.st = "initial"
    /\ \E arrived \in {Incoming(1, cl.rd)} : \E r \in {ClRecv(1, cl.rbuf, arrived, failed) : failed \in ReadEnds(conn[1].rst)} :
       LET i == InitialReply(r)
           k == AfterRead(conn[1], r.read)
       IN /\ r.kind # "pending"
          /\ cl' = [cl EXCEPT !.rd = ReadTo(1, cl.rd, r.read), !.rbuf = r.rbuf,
                              !.st = i.st, !.remote_port = i.remote_port, !.res = i.res]
          /\ conn' = [conn EXCEPT ![1] = IF i.st = "failed"
                                         THEN Dropped(k, ReadTo(1, cl.rd, r.read)) ELSE k]
    /\ UNCHANGED <<cfg, server, conns, evictor, visitor, taken, cx, dx, rpg>>

\* recv_timeout in new_with_tls runs out of time.
ClientInitialTimeout ==
    /\ cl.st = "initial"
    /\ cl' = [cl EXCEPT !.st = "failed", !.res = "timed out"]
    /\ conn' = [conn EXCEPT ![1] = Dropped(@, cl.rd)]
    /\ UNCHANGED <<cfg, server, conns, evictor, visitor, taken, cx, dx, rpg>>

\* The legs spawned so far.
Spawned == Cardinality({v \in Visitors : cl.leg[v].st # "none"})

\* One turn of the loop of Client::listen: Connection(id) spawns a data leg
\* for the id, whatever the id, the end of the stream ends the client, an
\* error too.  MaxVisitors legs are followed.
ClientListen ==
    /\ cl.st = "ready"
    /\ \E arrived \in {Incoming(1, cl.rd)} : \E r \in {ClRecv(1, cl.rbuf, arrived, failed) : failed \in ReadEnds(conn[1].rst)} :
       LET k == AfterRead(conn[1], r.read)
           c1 == [cl EXCEPT !.rd = ReadTo(1, cl.rd, r.read), !.rbuf = r.rbuf]
       IN /\ r.kind # "pending"
          /\ IF r.kind = "msg"
             THEN /\ r.msg.tag = "Connection" => Spawned < MaxVisitors
                  /\ cl' = IF r.msg.tag = "Connection"
                           THEN [c1 EXCEPT !.leg[Spawned + 1].st = "connect",
                                           !.leg[Spawned + 1].id = r.msg.val]
                           ELSE c1
                  /\ conn' = [conn EXCEPT ![1] = k]
             ELSE /\ cl' = [c1 EXCEPT !.st = "ended",
                                      !.res = IF r.kind = "none" THEN "ok" ELSE "recv error"]
                  /\ conn' = [conn EXCEPT ![1] = Dropped(k, c1.rd)]
    /\ UNCHANGED <<cfg, server, conns, evictor, visitor, taken, cx, dx, rpg>>

\* A leg whose end takes the control loop with it.
LegDone_EndsClient(v, label) ==
    [cl EXCEPT !.st = "ended", !.leg[v].st = "done", !.leg[v].res = label,
               !.leg[v].lst = IF @ = "open" THEN "closed" ELSE @, !.leg[v].lrst = FALSE]

\* The leg ends: its streams are dropped.
LegDone(v, label) ==
    [cl EXCEPT !.leg[v].st = "done", !.leg[v].res = label,
               !.leg[v].lst = IF @ = "open" THEN "closed" ELSE @, !.leg[v].lrst = FALSE]

\* handle_connection: connect_with_timeout(to, CONTROL_PORT).
LegConnect(v) ==
    /\ cl.leg[v].st = "connect"
    /\ IF server = "listening"
       THEN /\ conn' = [conn EXCEPT ![LegConn(v)].peer = "open"]
            /\ cl' = [cl EXCEPT !.leg[v].st = IF cl.secret # 0 THEN "handshake" ELSE "accept"]
       ELSE /\ cl' = LegDone(v, "could not connect")
            /\ UNCHANGED conn
    /\ UNCHANGED <<cfg, server, conns, evictor, visitor, taken, cx, dx, rpg>>

\* auth.client_handshake on the data connection.
LegHandshake(v) ==
    /\ cl.leg[v].st = "handshake"
    /\ \E arrived \in {Incoming(LegConn(v), cl.leg[v].rd)} :
       \E r \in {ClRecv(LegConn(v), cl.leg[v].rbuf, arrived, failed) :
                    failed \in ReadEnds(conn[LegConn(v)].rst)} :
       LET c == LegConn(v)
           g == cl.leg[v]
           h == HandshakeReply(cl.secret, r)
           k == AfterRead(conn[c], r.read)
           c1 == [cl EXCEPT !.leg[v].rd = ReadTo(c, g.rd, r.read), !.leg[v].rbuf = r.rbuf]
       IN /\ r.kind # "pending"
          /\ \E ok \in ClSendOutcomes(c) :
                IF h.ok /\ ok
                THEN /\ cl' = [c1 EXCEPT !.leg[v].st = "accept"]
                     /\ conn' = [conn EXCEPT ![c] =
                                    Written(k, SendBytes(Msg("Authenticate", h.tag)))]
                ELSE /\ cl' = [c1 EXCEPT !.leg[v].st = "done",
                                         !.leg[v].res = IF h.ok THEN "send error"
                                                        ELSE "no challenge received"]
                     /\ conn' = [conn EXCEPT ![c] = Dropped(k, c1.leg[v].rd)]
    /\ UNCHANGED <<cfg, server, conns, evictor, visitor, taken, cx, dx, rpg>>

\* remote_conn.send(ClientMessage::Accept(id)).await?
LegSendAccept(v) ==
    /\ cl.leg[v].st = "accept"
    /\ LET c == LegConn(v) IN
       \E ok \in ClSendOutcomes(c) :
        IF ok
        THEN /\ cl' = [cl EXCEPT !.leg[v].st = "dial"]
             /\ conn' = [conn EXCEPT ![c] = Written(@, SendBytes(Msg("Accept", cl.leg[v].id)))]
        ELSE /\ cl' = LegDone(v, "send error")
             /\ conn' = [conn EXCEPT ![c] = Dropped(@, cl.leg[v].rd)]
    /\ UNCHANGED <<cfg, server, conns, evictor, visitor, taken, cx, dx, rpg>>

\* connect_with_timeout(local_host, local_port): the local target may be
\* there or not.
LegDial(v) ==
    /\ cl.leg[v].st = "dial"
    /\ \E up \in BOOLEAN :
        IF up
        THEN /\ cl' = [cl EXCEPT !.leg[v].st = "flush", !.leg[v].lst = "open"]
             /\ UNCHANGED conn
        ELSE /\ cl' = LegDone(v, "could not connect")
             /\ conn' = [conn EXCEPT ![LegConn(v)] = Dropped(@, cl.leg[v].rd)]
    /\ UNCHANGED <<cfg, server, conns, evictor, visitor, taken, cx, dx, rpg>>

\* remote_conn.into_parts() and local_conn.write_all(&parts.read_buf).await?:
\* what the codec has buffered goes to the local socket first; a write that
\* fails ends the leg before proxy.
LegFlush(v) ==
    /\ cl.leg[v].st = "flush"
    /\ \E ok \in WriteAllOutcomes(cl.leg[v].rbuf, cl.leg[v].lst = "closed") :
        IF ok
        THEN /\ cl' = [cl EXCEPT !.leg[v].st = "splice",
                                 !.leg[v].lrx = ReadBufFlush(@, cl.leg[v].rbuf),
                                 !.leg[v].rbuf = <<>>,
                                 !.leg[v].flush = cl.leg[v].rbuf]
             /\ UNCHANGED conn
        ELSE /\ cl' = LegDone(v, "write error")
             /\ conn' = [conn EXCEPT ![LegConn(v)] = Dropped(@, cl.leg[v].rd)]
    /\ UNCHANGED <<cfg, server, conns, evictor, visitor, taken, cx, dx, rpg>>

\* proxy(local_conn, parts.io), io::copy from the data connection to the
\* local socket.
LegCopyDown(v) ==
    /\ cl.leg[v].st = "splice"
    /\ \E bytes \in {Incoming(LegConn(v), cl.leg[v].rd)} :
       LET c == LegConn(v)
           g == cl.leg[v]
       IN /\ bytes # <<>>
          /\ \E k \in {1, Len(bytes)} :
                /\ g.rd < Len(conn[c].out) => k = Len(bytes)
                /\ cl' = [cl EXCEPT !.leg[v].lrx = @ \o SubSeq(bytes, 1, k),
                                    !.leg[v].rd = Len(conn[c].out)]
                /\ conn' = [conn EXCEPT ![c].down = SubSeq(bytes, k + 1, Len(bytes))]
    /\ UNCHANGED <<cfg, server, conns, evictor, visitor, taken, cx, dx, rpg>>

\* proxy(local_conn, parts.io), io::copy from the local socket to the data
\* connection.
LegCopyUp(v) ==
    /\ cl.leg[v].st = "splice"
    /\ cl.leg[v].ltx # <<>>
    /\ \E k \in {1, Len(cl.leg[v].ltx)} :
        /\ conn' = [conn EXCEPT ![LegConn(v)] = Written(@, SubSeq(cl.leg[v].ltx, 1, k))]
        /\ cl' = [cl EXCEPT !.leg[v].ltx = Drop(@, k)]
    /\ UNCHANGED <<cfg, server, conns, evictor, visitor, taken, cx, dx, rpg>>

\* What proxy returns on the client, the result of the copy that completes
\* first, the one from the local socket to the data connection or the one
\* from the data connection to the local socket.
LegResults(v) ==
    CopyDone(cl.leg[v].lst = "closed", cl.leg[v].lrst, cl.leg[v].ltx)
        \cup CopyFails(conn[LegConn(v)].pc = "done", cl.leg[v].ltx)
        \cup CopyDone(conn[LegConn(v)].pc = "done", conn[LegConn(v)].rst,
                      Incoming(LegConn(v), cl.leg[v].rd))
        \cup CopyFails(cl.leg[v].lst = "closed", Incoming(LegConn(v), cl.leg[v].rd))

\* proxy returns once one of its copies has completed; the leg returns what
\* proxy returned and drops both sockets.
LegEnd(v) ==
    /\ cl.leg[v].st = "splice"
    /\ \E res \in LegResults(v) : cl' = LegDone(v, res)
    /\ conn' = [conn EXCEPT ![LegConn(v)] = Dropped(@, cl.leg[v].rd)]
    /\ UNCHANGED <<cfg, server, conns, evictor, visitor, taken, cx, dx, rpg>>

\* The local target writes a byte.
LocalWrite(v) ==
    /\ cl.leg[v].lst = "open"
    /\ Len(cl.leg[v].lsent) < MaxBytes
    /\ LET b == LocalByte(v, Len(cl.leg[v].lsent) + 1) IN
       cl' = [cl EXCEPT !.leg[v].ltx = Append(@, b), !.leg[v].lsent = Append(@, b)]
    /\ UNCHANGED <<cfg, server, conn, conns, evictor, visitor, taken, cx, dx, rpg>>

\* The local target closes its end, having read what it has received or not.
LocalClose(v) ==
    /\ cl.leg[v].lst = "open"
    /\ cl' = [cl EXCEPT !.leg[v].lst = "closed", !.leg[v].lrst = cl.leg[v].lrx # <<>>]
    /\ UNCHANGED <<cfg, server, conn, conns, evictor, visitor, taken, cx, dx, rpg>>

(***************************************************************************)
(* Codec harness: a writer calls send for each message of cx.todo and then *)
(* shuts down; the transport hands the bytes to the reader in segments; a  *)
(* reader calls recv until it returns None or an error.                    *)
(***************************************************************************)
\* Longest message sequence the writer sends.
MaxMsgs == 2

\* Size of a short read (a read returns this many bytes, or all there are).
SegLen == 5

Text(n) == [i \in 1..n |-> 97]

\* Error texts whose frame is 255, 256 and 257 bytes long.
ErrorFrameOverhead == Len(KeyOpen(TxtError)) + 3

ClientMsgs ==
    {Msg("Hello", 0), Msg("Hello", 65535), Msg("Accept", 10),
     Msg("Authenticate", <<97, 34, 92, 10, 1, 195, 169>>), Msg("Authenticate", <<>>)}

ServerMsgs ==
    {Msg("Challenge", 3), Msg("Hello", 1024), Msg("Heartbeat", 0), Msg("Connection", 15),
     Msg("Error", Text(3)),
     Msg("Error", Text(MAX_FRAME_LENGTH - ErrorFrameOverhead)),
     Msg("Error", Text(MAX_FRAME_LENGTH - ErrorFrameOverhead + 1))}

SeqsUpTo(S, n) == UNION {[1..k -> S] : k \in 0..n}

CxIdle ==
    [typ |-> "client", todo |-> <<>>, sent |-> <<>>, pipe |-> <<>>, closed |-> FALSE,
     rbuf |-> <<>>, got |-> <<>>, done |-> TRUE, split |-> FALSE, multi |-> FALSE]

CxInit ==
    /\ rpg = RpgIdle
    /\ cfg = [min_port |-> 0, max_port |-> 0, busy |-> {}, secret |-> 0, cast |-> <<>>,
              nvis |-> 0]
    /\ server = "none"
    /\ conn = [c \in Conns |-> ConnIdle]
    /\ conns = [id \in Ids |-> 0]
    /\ evictor = [id \in Ids |-> "none"]
    /\ visitor = [v \in Visitors |-> VisitorIdle]
    /\ taken = [id \in Ids |-> <<>>]
    /\ cl = ClIdle
    /\ dx = DxIdle
    /\ \E typ \in {"client", "server"} :
        \E todo \in SeqsUpTo(IF typ = "client" THEN ClientMsgs ELSE ServerMsgs, MaxMsgs) :
            cx = [CxIdle EXCEPT !.typ = typ, !.todo = todo, !.done = FALSE]

\* Delimited::send of the next message.
CxSend ==
    /\ cx.todo # <<>>
    /\ cx' = [cx EXCEPT !.todo = Tail(@), !.sent = Append(@, Head(cx.todo)),
                        !.pipe = @ \o SendBytes(Head(cx.todo))]
    /\ UNCHANGED srvVars

\* The writer returns and drops its end of the stream, as a handler does
\* after its last send.
CxClose ==
    /\ cx.todo = <<>> /\ ~cx.closed
    /\ cx' = [cx EXCEPT !.closed = TRUE]
    /\ UNCHANGED srvVars

\* The number of delimiters in buf.
Delimiters(buf) == Cardinality({i \in 1..Len(buf) : buf[i] = NUL})

\* Framed::poll_next reads from the transport when the buffer holds no frame.
\* split and multi record that a read ended inside a frame, and that a read
\* left more than one frame in the buffer.
CxRead ==
    /\ ~cx.done /\ FrameDecode(cx.rbuf).kind = "none" /\ cx.pipe # <<>>
    /\ \E k \in {Min(SegLen, Len(cx.pipe)), Len(cx.pipe)} :
        LET buf == cx.rbuf \o SubSeq(cx.pipe, 1, k) IN
        cx' = [cx EXCEPT !.rbuf = buf, !.pipe = Drop(@, k),
                         !.split = @ \/ buf[Len(buf)] # NUL,
                         !.multi = @ \/ Delimiters(buf) > 1]
    /\ UNCHANGED srvVars

\* Delimited::recv returns: a frame of the buffer, or the end of the stream.
CxRecv ==
    /\ ~cx.done
    /\ LET atEof == cx.pipe = <<>> /\ cx.closed
           d == IF atEof THEN FrameDecodeEof(cx.rbuf) ELSE FrameDecode(cx.rbuf)
           r == RecvResult(d, cx.typ)
       IN /\ d.kind # "none"
          /\ cx' = [cx EXCEPT !.rbuf = d.rest, !.got = Append(@, r),
                              !.done = r.kind # "msg"]
    /\ UNCHANGED srvVars

CxNext == CxSend \/ CxClose \/ CxRead \/ CxRecv

SpecCodec == CxInit /\ [][CxNext]_vars

(***************************************************************************)
(* The server with its peers and visitors.                                 *)
(***************************************************************************)
Init == SrvInit /\ cx = CxIdle /\ dx = DxIdle /\ cl = ClIdle /\ rpg = RpgIdle

Next ==
    \/ ServerNew
    \/ ServerListen
    \/ \E c \in Conns : PeerConnect(c)
    \/ \E c \in Conns : PeerWrite(c)
    \/ \E c \in Conns : PeerClose(c)
    \/ \E v \in Visitors : VisitorConnect(v)
    \/ \E c \in Conns : ServerAccept(c)
    \/ \E c \in Conns : AcceptFail(c)
    \/ \E c \in Conns : HandshakeRecv(c)
    \/ \E c \in Conns : HandshakeTimeout(c)
    \/ \E c \in Conns : FirstRecv(c)
    \/ \E c \in Conns : FirstTimeout(c)
    \/ \E c \in Conns : Bind(c)
    \/ \E c \in Conns : SendHello(c)
    \/ \E c \in Conns : Heartbeat(c)
    \/ \E c \in Conns : Followed(c) /\ AcceptTimeout(c)
    \/ \E c \in Conns : AcceptError(c)
    \/ \E c \in Conns, v \in Visitors : AcceptVisitor(c, v)
    \/ \E c \in Conns : SendConnection(c)
    \/ \E id \in Ids : Evict(id)
    \/ \E c \in Conns : SpliceEnd(c)

Spec == Init /\ [][Next]_vars

(***************************************************************************)
(* The server with the client, one visitor and the local target.           *)
(***************************************************************************)
\* The visitors that dial the public port in the end-to-end runs.
E2EVisitors == {1}

\* The client asks for any port or for the last port of the range, with the
\* server's secret, with none or with one where the server has none.
E2EInit ==
    /\ rpg = RpgIdle
    /\ \E r \in Ranges, sec \in Secrets, csec \in Secrets, any \in BOOLEAN :
        /\ cfg = [min_port |-> r.min_port, max_port |-> r.max_port, busy |-> r.busy,
                  secret |-> sec, nvis |-> Cardinality(E2EVisitors),
                  cast |-> [c \in 1..NConn |-> IF c = 1 THEN "client" ELSE "cleg"]]
        /\ cl = [ClIdle EXCEPT !.secret = csec, !.port = IF any THEN 0 ELSE r.max_port]
    /\ server = "none"
    /\ conn = [c \in Conns |-> ConnIdle]
    /\ conns = [id \in Ids |-> 0]
    /\ evictor = [id \in Ids |-> "none"]
    /\ visitor = [v \in Visitors |-> VisitorIdle]
    /\ taken = [id \in Ids |-> <<>>]
    /\ cx = CxIdle
    /\ dx = DxIdle

E2ENext ==
    \/ ServerNew
    \/ ServerListen
    \/ ClientConnect
    \/ ClientHandshake
    \/ ClientSendHello
    \/ ClientInitial
    \/ ClientInitialTimeout
    \/ ClientListen
    \/ \E v \in Visitors : VisitorConnect(v)
    \/ \E v \in Visitors : VisitorWrite(v)
    \/ \E v \in Visitors : VisitorClose(v)
    \/ \E c \in Conns : ServerAccept(c)
    \/ \E c \in Conns : HandshakeRecv(c)
    \/ \E c \in Conns : HandshakeTimeout(c)
    \/ \E c \in Conns : FirstRecv(c)
    \/ \E c \in Conns : FirstTimeout(c)
    \/ \E c \in Conns : Bind(c)
    \/ \E c \in Conns : SendHello(c)
    \/ \E c \in Conns : Heartbeat(c)
    \/ \E c \in Conns : Followed(c) /\ AcceptTimeout(c)
    \/ \E c \in Conns : AcceptError(c)
    \/ \E c \in Conns, v \in Visitors : AcceptVisitor(c, v)
    \/ \E c \in Conns : SendConnection(c)
    \/ \E id \in Ids : Evict(id)
    \/ \E c \in Conns : SpliceEnd(c)
    \/ \E c \in Conns : SrvCopyUp(c)
    \/ \E c \in Conns : SrvCopyDown(c)
    \/ \E v \in Visitors : LegConnect(v)
    \/ \E v \in Visitors : LegHandshake(v)
    \/ \E v \in Visitors : LegSendAccept(v)
    \/ \E v \in Visitors : LegDial(v)
    \/ \E v \in Visitors : LegFlush(v)
    \/ \E v \in Visitors : LegCopyDown(v)
    \/ \E v \in Visitors : LegCopyUp(v)
    \/ \E v \in Visitors : LegEnd(v)
    \/ \E v \in Visitors : LocalWrite(v)
    \/ \E v \in Visitors : LocalClose(v)

\* The runtime runs the copies of a splice that have bytes to move.
E2EFair ==
    /\ \A c \in Conns : WF_vars(SrvCopyUp(c)) /\ WF_vars(SrvCopyDown(c))
    /\ \A v \in Visitors : WF_vars(LegCopyDown(v)) /\ WF_vars(LegCopyUp(v))

SpecE2E == E2EInit /\ [][E2ENext]_vars /\ E2EFair

\* The runtime also runs a task whose wait is over: an evictor after its
\* sleep, a leg whose write of the read buffer to the local socket can go
\* on, and a proxy (the server's or the client's) once one of its copies has
\* ended.
E2EFairEnds ==
    /\ E2EFair
    /\ \A id \in Ids : WF_vars(Evict(id))
    /\ \A c \in Conns : WF_vars(SpliceEnd(c))
    /\ \A v \in Visitors : WF_vars(LegFlush(v)) /\ WF_vars(LegEnd(v))

\* The ends of the splices are followed for a client that was given the
\* server's secret and asks for any port of a range that starts at 0.
E2EEndsInit == E2EInit /\ cfg.secret = 1 /\ cl.secret = 1 /\ cfg.min_port = 0 /\ cl.port = 0

SpecE2EEnds == E2EEndsInit /\ [][E2ENext]_vars /\ E2EFairEnds

(***************************************************************************)
(* Client::new against the server: the control connection alone.           *)
(***************************************************************************)
ClientNext ==
    \/ ServerNew
    \/ ServerListen
    \/ ClientConnect
    \/ ClientHandshake
    \/ ClientSendHello
    \/ ClientInitial
    \/ ClientInitialTimeout
    \/ ClientListen
    \/ ServerAccept(1)
    \/ HandshakeRecv(1)
    \/ HandshakeTimeout(1)
    \/ FirstRecv(1)
    \/ FirstTimeout(1)
    \/ Bind(1)
    \/ SendHello(1)
    \/ Heartbeat(1)
    \/ Followed(1) /\ AcceptTimeout(1)
    \/ AcceptError(1)

\* The runtime runs every task that can take a step: the accept loop, a
\* handler or the client once its frame has arrived, and a handler whose
\* timer has run out.
ClientFair ==
    /\ WF_vars(ClientHandshake) /\ WF_vars(ClientSendHello) /\ WF_vars(ClientInitial)
    /\ WF_vars(ServerAccept(1))
    /\ WF_vars(HandshakeRecv(1)) /\ WF_vars(HandshakeTimeout(1))
    /\ WF_vars(FirstRecv(1)) /\ WF_vars(FirstTimeout(1))

SpecClient == E2EInit /\ [][ClientNext]_vars /\ ClientFair

(***************************************************************************)
(* The client against a peer of its own kind of test: a stub that listens  *)
(* on the control port and writes what it likes, in any order, on the      *)
(* control connection and on the data connections.                          *)
(***************************************************************************)
\* Frames the stub writes on the control connection.
MaxStub == 3

\* A frame that is no message: an opening brace and the delimiter.
Malformed == <<123, NUL>>

\* An id that is the id of no visitor.
StrayId == MaxVisitors + 7

\* What the stub may write on connection c.  On the control connection any
\* server message, MaxVisitors times a Connection, the first for the id of a
\* visitor and the others for an id of no visitor; on a data connection,
\* where the client looks for a Challenge and takes the rest for payload, a
\* Challenge or a Heartbeat.
StubMsgs(c) ==
    IF c = 1
    THEN {Msg("Challenge", c), Msg("Hello", 1024), Msg("Heartbeat", 0), Msg("Error", Text(3))}
            \cup (IF Count(conn[1], "Connection") < MaxVisitors
                  THEN {Msg("Connection", IF Count(conn[1], "Connection") = 0 THEN 1 ELSE StrayId)}
                  ELSE {})
    ELSE {Msg("Challenge", c), Msg("Heartbeat", 0)}

\* The stub listens, or nothing listens at the address the client is given.
StubInit ==
    /\ rpg = RpgIdle
    /\ \E csec \in Secrets :
        /\ cfg = [min_port |-> 1024, max_port |-> 65535, busy |-> {}, secret |-> csec, nvis |-> 0,
                  cast |-> [c \in 1..NConn |-> IF c = 1 THEN "client" ELSE "cleg"]]
        /\ cl = [ClIdle EXCEPT !.secret = csec]
    /\ server \in {"listening", "none"}
    /\ conn = [c \in Conns |-> [ConnIdle EXCEPT !.pc = "stub"]]
    /\ conns = [id \in Ids |-> 0]
    /\ evictor = [id \in Ids |-> "none"]
    /\ visitor = [v \in Visitors |-> VisitorIdle]
    /\ taken = [id \in Ids |-> <<>>]
    /\ cx = CxIdle
    /\ dx = DxIdle

\* The stub writes a message: MaxStub of them on the control connection, one
\* on a data connection.
StubSend(c) ==
    /\ conn[c].pc = "stub" /\ conn[c].peer = "open" /\ conn[c].writes = 0
    /\ Len(conn[c].out) < (IF c = 1 THEN MaxStub ELSE 1)
    /\ \E m \in StubMsgs(c) : conn' = [conn EXCEPT ![c].out = Append(@, m)]
    /\ UNCHANGED <<cfg, server, conns, evictor, visitor, taken, cx, dx, cl, rpg>>

\* The stub writes a frame that is no message, the last thing it writes on
\* the connection (writes counts such frames, junk keeps the frame): a
\* malformed one, or null on the control connection.
StubJunk(c) ==
    /\ conn[c].pc = "stub" /\ conn[c].peer = "open" /\ conn[c].writes = 0
    /\ Len(conn[c].out) < (IF c = 1 THEN MaxStub ELSE 1)
    /\ \E bytes \in {Malformed} \cup (IF c = 1 THEN {NullFrame} ELSE {}) :
        conn' = [conn EXCEPT ![c].down = bytes, ![c].writes = 1, ![c].junk = bytes]
    /\ UNCHANGED <<cfg, server, conns, evictor, visitor, taken, cx, dx, cl, rpg>>

\* The stub closes a connection.
StubClose(c) ==
    /\ conn[c].pc = "stub" /\ conn[c].peer # "idle"
    /\ conn' = [conn EXCEPT ![c].pc = "done",
                             ![c].rst = conn[c].peer = "open" /\ conn[c].wire # <<>>]
    /\ UNCHANGED <<cfg, server, conns, evictor, visitor, taken, cx, dx, cl, rpg>>

\* The stub stops listening: connections made from now on are refused.
StubStop ==
    /\ server = "listening" /\ conn[1].peer # "idle"
    /\ server' = "failed"
    /\ UNCHANGED <<cfg, conn, conns, evictor, visitor, taken, cx, dx, cl, rpg>>

StubNext ==
    \/ ClientConnect
    \/ ClientHandshake
    \/ ClientSendHello
    \/ ClientInitial
    \/ ClientInitialTimeout
    \/ ClientListen
    \/ \E v \in Visitors : LegConnect(v)
    \/ \E v \in Visitors : LegHandshake(v)
    \/ \E v \in Visitors : LegSendAccept(v)
    \/ \E v \in Visitors : LegDial(v)
    \/ \E v \in Visitors : LegFlush(v)
    \/ \E v \in Visitors : LegCopyDown(v)
    \/ \E v \in Visitors : LegEnd(v)
    \/ \E v \in Visitors : LocalClose(v)
    \/ \E c \in Conns : StubSend(c)
    \/ \E c \in Conns : StubJunk(c)
    \/ \E c \in Conns : StubClose(c)
    \/ StubStop

\* The runtime runs the control loop and every data leg that can take a step.
StubFair ==
    /\ WF_vars(ClientListen)
    /\ \A v \in Visitors :
        /\ WF_vars(LegConnect(v)) /\ WF_vars(LegSendAccept(v))
        /\ WF_vars(LegDial(v)) /\ WF_vars(LegFlush(v))

SpecStub == StubInit /\ [][StubNext]_vars /\ StubFair

(***************************************************************************)
(* Handshake harness (tests/auth_test.rs): client_handshake and            *)
(* server_handshake run together over io::duplex(DuplexCap), each end      *)
(* framed with the delimiter codec.  The frames of the handshake are       *)
(* shorter than the codec's limit in the test and than MAX_FRAME_LENGTH.   *)
(***************************************************************************)
\* Bytes the duplex holds in each direction.
DuplexCap == 8

\* Nonces drawn by the server in the harness.
Nonces == {1, 10}

\* Secrets of the two authenticators.
DxSecrets == {1, 2}

DxInit ==
    /\ rpg = RpgIdle
    /\ \E ssec \in DxSecrets, csec \in DxSecrets, n \in Nonces :
        /\ cfg = [min_port |-> 0, max_port |-> 0, busy |-> {}, secret |-> ssec, cast |-> <<>>,
                  nvis |-> 0]
        /\ dx = [DxIdle EXCEPT !.nonce = n, !.csecret = csec,
                               !.srv.st = "start", !.cli.st = "recv"]
    /\ server = "none"
    /\ conn = [c \in Conns |-> ConnIdle]
    /\ conns = [id \in Ids |-> 0]
    /\ evictor = [id \in Ids |-> "none"]
    /\ visitor = [v \in Visitors |-> VisitorIdle]
    /\ taken = [id \in Ids |-> <<>>]
    /\ cl = ClIdle
    /\ cx = CxIdle

\* A duplex that never has room.
DxRoom_Full(pipe) == 0

\* DuplexStream::poll_write: as many bytes as the duplex has room for.
DxRoom(pipe) == DuplexCap - Len(pipe)

\* One write of an end with bytes to write: some of them go into the pipe;
\* with no room the write waits.  The end after the write, and the pipe.
DxWritten(end, pipe, k, next) ==
    [end |-> [end EXCEPT !.wbuf = Drop(@, k), !.st = IF k = Len(end.wbuf) THEN next ELSE @],
     pipe |-> pipe \o SubSeq(end.wbuf, 1, k)]

\* One read of an end whose buffer holds no frame: bytes of the pipe go into
\* the read buffer.
DxTaken(end, pipe, k) ==
    [end |-> [end EXCEPT !.rbuf = @ \o SubSeq(pipe, 1, k)], pipe |-> Drop(pipe, k)]

\* server_handshake: stream.send(ServerMessage::Challenge(nonce)) begins.
DxServerSend ==
    /\ dx.srv.st = "start"
    /\ dx' = [dx EXCEPT !.srv.st = "sending",
                        !.srv.wbuf = SendBytes(Msg("Challenge", dx.nonce))]
    /\ UNCHANGED <<cfg, server, conn, conns, evictor, visitor, taken, cx, cl, rpg>>

DxServerWrite ==
    /\ dx.srv.st = "sending" /\ DxRoom(dx.s2c) > 0
    /\ \E k \in {1, Min(DxRoom(dx.s2c), Len(dx.srv.wbuf))} :
       \E w \in {DxWritten(dx.srv, dx.s2c, k, "recv")} :
        dx' = [dx EXCEPT !.srv = w.end, !.s2c = w.pipe,
                         !.waited = @ \/ (w.end.wbuf # <<>> /\ DxRoom(w.pipe) = 0)]
    /\ UNCHANGED <<cfg, server, conn, conns, evictor, visitor, taken, cx, cl, rpg>>

DxServerRead ==
    /\ dx.srv.st = "recv" /\ dx.c2s # <<>> /\ FrameDecode(dx.srv.rbuf).kind = "none"
    /\ \E k \in {1, Len(dx.c2s)} : \E t \in {DxTaken(dx.srv, dx.c2s, k)} :
        dx' = [dx EXCEPT !.srv = t.end, !.c2s = t.pipe]
    /\ UNCHANGED <<cfg, server, conn, conns, evictor, visitor, taken, cx, cl, rpg>>

\* server_handshake from the frame on: the result of the handshake.
DxServerRecv ==
    /\ dx.srv.st = "recv"
    /\ \E d \in {FrameDecode(dx.srv.rbuf)} :
        /\ d.kind # "none"
        /\ \E r \in {RecvResult(d, "client")} :
            dx' = [dx EXCEPT !.srv.rbuf = d.rest, !.srv.st = HandshakeResult(dx.nonce, r)]
    /\ UNCHANGED <<cfg, server, conn, conns, evictor, visitor, taken, cx, cl, rpg>>

DxClientRead ==
    /\ dx.cli.st = "recv" /\ dx.s2c # <<>> /\ FrameDecode(dx.cli.rbuf).kind = "none"
    /\ \E k \in {1, Len(dx.s2c)} : \E t \in {DxTaken(dx.cli, dx.s2c, k)} :
        dx' = [dx EXCEPT !.cli = t.end, !.s2c = t.pipe]
    /\ UNCHANGED <<cfg, server, conn, conns, evictor, visitor, taken, cx, cl, rpg>>

\* client_handshake from the frame on: the reply begins, or the failure.
DxClientRecv ==
    /\ dx.cli.st = "recv"
    /\ \E d \in {FrameDecode(dx.cli.rbuf)} :
        /\ d.kind # "none"
        /\ \E h \in {HandshakeReply(dx.csecret, RecvResult(d, "server"))} :
            dx' = [dx EXCEPT !.cli.rbuf = d.rest,
                             !.cli.st = IF h.ok THEN "sending" ELSE "no challenge received",
                             !.cli.wbuf = IF h.ok THEN SendBytes(Msg("Authenticate", h.tag))
                                          ELSE <<>>]
    /\ UNCHANGED <<cfg, server, conn, conns, evictor, visitor, taken, cx, cl, rpg>>

DxClientWrite ==
    /\ dx.cli.st = "sending" /\ DxRoom(dx.c2s) > 0
    /\ \E k \in {1, Min(DxRoom(dx.c2s), Len(dx.cli.wbuf))} :
       \E w \in {DxWritten(dx.cli, dx.c2s, k, "ok")} :
        dx' = [dx EXCEPT !.cli = w.end, !.c2s = w.pipe,
                         !.waited = @ \/ (w.end.wbuf # <<>> /\ DxRoom(w.pipe) = 0)]
    /\ UNCHANGED <<cfg, server, conn, conns, evictor, visitor, taken, cx, cl, rpg>>

DxNext ==
    \/ DxServerSend
    \/ DxServerWrite
    \/ DxServerRead
    \/ DxServerRecv
    \/ DxClientRead
    \/ DxClientRecv
    \/ DxClientWrite

\* try_join! polls both handshakes whenever one of them can go on.
DxFair ==
    /\ WF_vars(DxServerSend) /\ WF_vars(DxServerWrite) /\ WF_vars(DxServerRead)
    /\ WF_vars(DxServerRecv) /\ WF_vars(DxClientRead) /\ WF_vars(DxClientRecv)
    /\ WF_vars(DxClientWrite)

SpecDuplex == DxInit /\ [][DxNext]_vars /\ DxFair

(***************************************************************************)
(* The authenticator as a function: answer and validate applied to drawn   *)
(* secrets, nonces and tags.                                               *)
(***************************************************************************)
\* Longest tag drawn.
MaxTag == 3

\* The drawn tags, over the digits 1 and 2, the letter a in both cases, and g,
\* which is no hex digit.
Tags == UNION {[1..n -> {49, 50, 97, 65, 103}] : n \in 0..MaxTag}

AuthInit ==
    /\ rpg = RpgIdle
    /\ \E ssec \in DxSecrets, csec \in DxSecrets, n \in Nonces, t \in Tags :
        /\ cfg = [min_port |-> 0, max_port |-> 0, busy |-> {}, secret |-> ssec, cast |-> <<>>,
                  nvis |-> 0]
        /\ dx = [DxIdle EXCEPT !.nonce = n, !.csecret = csec, !.tag = t]
    /\ server = "none"
    /\ conn = [c \in Conns |-> ConnIdle]
    /\ conns = [id \in Ids |-> 0]
    /\ evictor = [id \in Ids |-> "none"]
    /\ visitor = [v \in Visitors |-> VisitorIdle]
    /\ taken = [id \in Ids |-> <<>>]
    /\ cl = ClIdle
    /\ cx = CxIdle

\* answer(nonce) of the authenticator built from dx.csecret.
AuthAnswer ==
    /\ dx.verdict = "none" /\ dx.tag # Answer(dx.csecret, dx.nonce)
    /\ dx' = [dx EXCEPT !.tag = Answer(dx.csecret, dx.nonce)]
    /\ UNCHANGED <<cfg, server, conn, conns, evictor, visitor, taken, cx, cl, rpg>>

\* validate(nonce, tag) of the authenticator built from cfg.secret.
AuthValidate ==
    /\ dx.verdict = "none"
    /\ dx' = [dx EXCEPT !.verdict = IF Validate(cfg.secret, dx.nonce, dx.tag) THEN "true"
                                    ELSE "false"]
    /\ UNCHANGED <<cfg, server, conn, conns, evictor, visitor, taken, cx, cl, rpg>>

AuthNext == AuthAnswer \/ AuthValidate

SpecAuth == AuthInit /\ [][AuthNext]_vars

(***************************************************************************)
(* Hosts side by side: every connection is a client that sends Hello, for  *)
(* a fixed port or for any, and none waits for another.  The server has no *)
(* secret, and the host has a port left for each client.                   *)
(***************************************************************************)
HostRanges ==
    {[min_port |-> 1, max_port |-> 2, busy |-> {}],
     [min_port |-> 0, max_port |-> 1, busy |-> {}]}

HostsInit ==
    /\ rpg = RpgIdle
    /\ \E r \in HostRanges :
        cfg = [min_port |-> r.min_port, max_port |-> r.max_port, busy |-> r.busy,
               secret |-> 0, nvis |-> 0, cast |-> <<"rival", "rival">>]
    /\ server = "none"
    /\ conn = [c \in Conns |-> ConnIdle]
    /\ conns = [id \in Ids |-> 0]
    /\ evictor = [id \in Ids |-> "none"]
    /\ visitor = [v \in Visitors |-> VisitorIdle]
    /\ taken = [id \in Ids |-> <<>>]
    /\ cx = CxIdle /\ dx = DxIdle /\ cl = ClIdle

HostsNext ==
    \/ ServerNew
    \/ ServerListen
    \/ \E c \in Conns : PeerConnect(c)
    \/ \E c \in Conns : PeerClose(c)
    \/ \E c \in Conns : ServerAccept(c)
    \/ \E c \in Conns : FirstRecv(c)
    \/ \E c \in Conns : Bind(c)
    \/ \E c \in Conns : SendHello(c)
    \/ \E c \in Conns : Heartbeat(c)
    \/ \E c \in Conns : Followed(c) /\ AcceptTimeout(c)
    \/ \E c \in Conns : AcceptError(c)

SpecHosts == HostsInit /\ [][HostsNext]_vars

(***************************************************************************)
(* The port search on a host with no port left: a client sends Hello to a  *)
(* server whose range has one port more than MaxAttempts, each of them     *)
(* held by another process.                                                *)
(***************************************************************************)
SearchInit ==
    /\ rpg = RpgIdle
    /\ cfg = [min_port |-> 2000, max_port |-> 2000 + MaxAttempts,
              busy |-> 2000..(2000 + MaxAttempts),
              secret |-> 0, nvis |-> 0, cast |-> <<"rival">>]
    /\ server = "none"
    /\ conn = [c \in Conns |-> ConnIdle]
    /\ conns = [id \in Ids |-> 0]
    /\ evictor = [id \in Ids |-> "none"]
    /\ visitor = [v \in Visitors |-> VisitorIdle]
    /\ taken = [id \in Ids |-> <<>>]
    /\ cx = CxIdle /\ dx = DxIdle /\ cl = ClIdle

SearchNext ==
    \/ ServerNew
    \/ ServerListen
    \/ PeerConnect(1)
    \/ ServerAccept(1)
    \/ FirstRecv(1)
    \/ Bind(1)

SpecSearch == SearchInit /\ [][SearchNext]_vars

(***************************************************************************)
(* RandomPortGenerator on its own: a generator made by new for a range and *)
(* an initial state of the range is asked for its next port as the for     *)
(* loop of handle_connection does, until it yields None.                   *)
(***************************************************************************)
\* The ranges walked, as <<min_port, max_port>>.
GenRanges == {<<2000, 2015>>, <<0, 3>>, <<65533, 65535>>, <<1, 1>>}

RpgInit ==
    /\ \E r \in GenRanges : \E initial_state \in InitialStates(r[1], r[2]) :
        rpg = [st |-> "run", min_port |-> r[1], max_port |-> r[2],
               g |-> GenNew(initial_state), yielded |-> <<>>]
    /\ cfg = [min_port |-> 0, max_port |-> 0, busy |-> {}, secret |-> 0, nvis |-> 0, cast |-> <<>>]
    /\ server = "none"
    /\ conn = [c \in Conns |-> ConnIdle]
    /\ conns = [id \in Ids |-> 0]
    /\ evictor = [id \in Ids |-> "none"]
    /\ visitor = [v \in Visitors |-> VisitorIdle]
    /\ taken = [id \in Ids |-> <<>>]
    /\ cx = CxIdle /\ dx = DxIdle /\ cl = ClIdle

\* One call of next by the for loop, which ends on None.  The walk is
\* followed for at most one port more than the range has.
RpgTake ==
    /\ rpg.st = "run"
    /\ Len(rpg.yielded) <= rpg.max_port - rpg.min_port + 1
    /\ \E n \in {GenNext(rpg.g, rpg.min_port, rpg.max_port)} :
        rpg' = IF n.some
               THEN [rpg EXCEPT !.g = n.g, !.yielded = Append(@, n.port)]
               ELSE [rpg EXCEPT !.g = n.g, !.st = "none"]
    /\ UNCHANGED <<cfg, server, conn, conns, evictor, visitor, taken, cx, dx, cl>>

RpgNext == RpgTake

SpecGen == RpgInit /\ [][RpgNext]_vars

\* The timers and the evictors are followed on a server with the range from
\* 1 to 2, with and without a secret and with every cast of peers.
TimedInit == Init /\ cfg.min_port = 1

\* The timers of recv_timeout run out: a handler that still waits for its
\* frame when NETWORK_TIMEOUT has passed gets the timeout error.
SpecTimers ==
    /\ TimedInit /\ [][Next]_vars
    /\ \A c \in Conns : WF_vars(HandshakeTimeout(c)) /\ WF_vars(FirstTimeout(c))

\* The runtime runs every spawned evictor: its sleep ends and it gets its turn.
FairSpec == TimedInit /\ [][Next]_vars /\ \A id \in Ids : WF_vars(Evict(id))

(***************************************************************************)
(* Properties of the server.                                               *)
(***************************************************************************)
\* Whether a handler has sent Hello(p) for some p.
SentHello(k) == \E i \in 1..Len(k.out) : k.out[i].tag = "Hello"

\* Whether a handler has sent an Error.
SentError(k) == \E i \in 1..Len(k.out) : k.out[i].tag = "Error"

\* C1: the socket stored under an id is obtained by at most one remover, an
\* Accept handler or the evictor of the id; the removes after it miss.
\* taken[id] lists the removers that got the socket.
C1_AtMostOneRemover == \A id \in Ids : Len(taken[id]) <= 1

\* One handler got the socket of an id, another handler asked for the same id
\* and missed, and the evictor of the id has run as well.
C1_Witness ==
    \E id \in Ids, c1 \in Conns, c2 \in Conns :
        /\ c1 # c2
        /\ taken[id] = <<c1>>
        /\ conn[c1].took = id
        /\ conn[c2].got = "Accept" /\ conn[c2].req = id
        /\ conn[c2].res = "missing connection"
        /\ evictor[id] = "done"

\* C2: every entry put into the map is removed from it in the end, whether
\* or not a client dials back, Connection(id) was sent, or the session that
\* put it there still runs; and in the end the map stays empty.
C2_EntriesEventuallyRemoved ==
    /\ \A id \in Ids : (conns[id] # 0) ~> (conns[id] = 0)
    /\ <>[](\A id \in Ids : conns[id] = 0)

\* The evictor removed an entry whose Connection(id) was never sent, the
\* send having failed and ended the session.
C2_Witness ==
    \E id \in Ids, c \in Conns :
        /\ taken[id] = <<0>>
        /\ conn[c].bound # 0 /\ conn[c].pc = "done" /\ conn[c].res = "send error"
        /\ \A i \in 1..Len(conn[c].out) : conn[c].out[i] # Msg("Connection", id)
        /\ visitor[id].port = conn[c].bound

\* C3: with a secret, a connection whose handshake has not succeeded never
\* gets past the handshake: its handler binds no port, sends no Hello and
\* removes no entry of the map.
C3_NothingBeforeHandshake ==
    \A c \in Conns :
        (cfg.secret # 0 /\ conn[c].hs # "ok") =>
            /\ conn[c].pc \in {"none", "handshake", "done"}
            /\ conn[c].bound = 0 /\ conn[c].port = 0
            /\ ~SentHello(conn[c])
            /\ conn[c].took = 0

\* With a secret, a peer sent Hello in place of the answer to the challenge,
\* and the handler has returned.
C3_Witness ==
    /\ cfg.secret # 0
    /\ \E c \in Conns :
        /\ conn[c].pc = "done" /\ conn[c].got = "Hello"
        /\ conn[c].hs = "no secret was provided"

\* C4: the port of the Hello that answers Hello(0) lies in the range of the
\* server.
C4_AssignedPortInRange ==
    \A c \in Conns :
        (conn[c].got = "Hello" /\ conn[c].req = 0) =>
            \A i \in 1..Len(conn[c].out) :
                conn[c].out[i].tag = "Hello" =>
                    (cfg.min_port <= conn[c].out[i].val /\ conn[c].out[i].val <= cfg.max_port)

\* C6: a server with an empty range is never constructed, never listens and
\* never handles a connection.
C6_EmptyRangeNeverServes ==
    cfg.min_port > cfg.max_port =>
        /\ server \notin {"new", "listening"}
        /\ \A c \in Conns : conn[c].pc = "none"

\* C7: a handler waiting for a frame never holds more than MAX_FRAME_LENGTH
\* bytes without a delimiter; reading that many is a frame error, and the
\* handler of a frame error has returned with no port bound, no Hello sent
\* and no entry removed.
C7_LongFrameEndsConnection ==
    \A c \in Conns :
        /\ conn[c].pc \in {"handshake", "first"} => ~Overrun(conn[c].rbuf)
        /\ conn[c].overrun => conn[c].res = "frame error"
        /\ conn[c].res = "frame error" =>
              /\ conn[c].pc = "done"
              /\ conn[c].bound = 0 /\ conn[c].port = 0
              /\ ~SentHello(conn[c])
              /\ conn[c].took = 0

\* A handler read more than MAX_FRAME_LENGTH bytes with no delimiter and
\* returned with a frame error.
C7_Witness ==
    \E c \in Conns :
        conn[c].overrun /\ conn[c].res = "frame error" /\ conn[c].pc = "done"

\* C10: a Hello with a nonzero port outside the range is answered with an
\* Error before the connection is closed, and no port is bound.
C10_OutOfRangeGetsError ==
    \A c \in Conns :
        (/\ conn[c].got = "Hello" /\ conn[c].req # 0
         /\ (conn[c].req < cfg.min_port \/ conn[c].req > cfg.max_port)
         /\ conn[c].pc = "done") =>
            (SentError(conn[c]) /\ conn[c].bound = 0)

\* A handler matched Hello(port) with a nonzero port inside the range.
FixedInRange(k) ==
    k.got = "Hello" /\ k.req # 0 /\ cfg.min_port <= k.req /\ k.req <= cfg.max_port

\* C11: for Hello(port) with a nonzero port inside the range, every Hello
\* the server sends carries that port; a failed bind ends the handler with
\* no Hello, Heartbeat or Connection sent, no port bound and one Error, "port
\* already in use" (at most one when the client has closed and the send can
\* fail); and a client still connected gets the Hello or the Error, never both.
C11_FixedPortOrError ==
    \A c \in Conns :
        FixedInRange(conn[c]) =>
            /\ \A i \in 1..Len(conn[c].out) :
                    conn[c].out[i].tag = "Hello" => conn[c].out[i].val = conn[c].req
            /\ Count(conn[c], "Hello") + Count(conn[c], "Error") <= 1
            /\ conn[c].bound \in {0, conn[c].req}
            /\ conn[c].res = "port already in use" =>
                  /\ conn[c].pc = "done" /\ conn[c].bound = 0
                  /\ Count(conn[c], "Hello") = 0 /\ Count(conn[c], "Heartbeat") = 0
                  /\ Count(conn[c], "Connection") = 0
                  /\ \A i \in 1..Len(conn[c].out) :
                        conn[c].out[i].tag = "Error" =>
                            conn[c].out[i].val = ErrorText("port already in use")
            /\ (conn[c].pc \notin {"bind", "hello"} /\ conn[c].peer = "open") =>
                  Count(conn[c], "Hello") + Count(conn[c], "Error") = 1
            /\ SentError(conn[c]) => conn[c].res = "port already in use"

\* The port asked for was taken: the handler sent its one Error and returned.
C11_Witness ==
    \E c \in Conns :
        /\ FixedInRange(conn[c]) /\ conn[c].res = "port already in use"
        /\ conn[c].pc = "done" /\ conn[c].peer = "open"
        /\ Count(conn[c], "Error") = 1

\* "failed to find an available port"
TxtFailedToFind ==
    <<102, 97, 105, 108, 101, 100, 32, 116, 111, 32, 102, 105, 110, 100, 32, 97, 110, 32, 97, 118, 97, 105, 108, 97, 98, 108, 101, 32, 112, 111, 114, 116>>

\* C12: for Hello(0) the server calls bind at most MaxAttempts times, and
\* the Error it sends when the search fails is "failed to find an available
\* port", sent after exactly MaxAttempts failed calls.
C12_AtMost150Attempts ==
    \A c \in Conns :
        (conn[c].got = "Hello" /\ conn[c].req = 0 /\ conn[c].hs \in {"none", "ok"}) =>
            /\ conn[c].tries <= MaxAttempts
            /\ \A i \in 1..Len(conn[c].out) :
                    conn[c].out[i].tag = "Error" =>
                        (conn[c].out[i].val = TxtFailedToFind /\ conn[c].tries = MaxAttempts)

\* C15: the accept loop of the server is over only when binding the control
\* port failed at startup (server = "failed"); nothing that happens later,
\* on a connection or to the loop itself, ends it.
C15_LoopEndsOnlyAtStartup == server \in {"failed", "stopped"} => server = "failed"

(***************************************************************************)
(* Properties of the codec.                                                *)
(***************************************************************************)
\* What the recv calls return for the messages sent: each message, then None.
Expected(msgs) ==
    [i \in 1..(Len(msgs) + 1) |->
        IF i <= Len(msgs) THEN [kind |-> "msg", msg |-> msgs[i]]
        ELSE [kind |-> "none", msg |-> ParseFail.msg]]

\* The recv calls so far have returned the messages sent, in their order, and
\* the last of them None if the reader is done.
RoundTrip ==
    /\ Len(cx.got) <= Len(cx.sent) + 1
    /\ cx.got = SubSeq(Expected(cx.sent), 1, Len(cx.got))
    /\ cx.done => (cx.todo = <<>> /\ Len(cx.got) = Len(cx.sent) + 1)

\* Whether the JSON text of every message fits a frame.
Fits(msgs) == \A i \in 1..Len(msgs) : Len(Encode(msgs[i])) <= MAX_FRAME_LENGTH

\* C8 as stated: whatever the messages sent and however the bytes are cut
\* into reads, the recv calls return the same messages in the same order and
\* then None.
C8_RoundTrip == cx.done => RoundTrip

\* C8 amended: the same, for messages whose JSON text is at most
\* MAX_FRAME_LENGTH bytes long.
C8_RoundTripOfFittingMessages == Fits(cx.sent \o cx.todo) => RoundTrip

\* The reader is done with MaxMsgs messages, one of them with a text as long
\* as a frame may be, after a read that ended inside a frame and a read that
\* left several frames in the buffer.
C8_Witness ==
    /\ cx.done /\ Len(cx.sent) = MaxMsgs /\ Fits(cx.sent)
    /\ \E i \in 1..Len(cx.sent) : Len(Encode(cx.sent[i])) = MAX_FRAME_LENGTH
    /\ cx.got = Expected(cx.sent)
    /\ cx.split /\ cx.multi

(***************************************************************************)
(* Properties of the client and of the splice.                             *)
(***************************************************************************)
\* Exactly one of the server and the client has a secret.
Mismatch == (cfg.secret = 0) # (cl.secret = 0)

\* C5: when exactly one side has a secret, Client::new never returns a
\* client and the server binds no port; and Client::new, once it has
\* connected, returns its error.
C5_MismatchedSecretFails ==
    /\ [](Mismatch =>
            /\ cl.st \notin {"ready", "ended"}
            /\ \A c \in Conns : conn[c].bound = 0 /\ conn[c].port = 0)
    /\ (Mismatch /\ cl.st \in {"handshake", "hello", "initial"}) ~> (cl.st = "failed")

\* The server has no secret and the client has one: the client waited for a
\* challenge until the server's handler gave up, and failed.
C5_Witness ==
    /\ cfg.secret = 0 /\ cl.secret # 0
    /\ cl.st = "failed" /\ cl.res = "no challenge received"
    /\ conn[1].pc = "done" /\ conn[1].res = "timed out"

IsPrefix(s, t) == Len(s) <= Len(t) /\ s = SubSeq(t, 1, Len(s))

\* The visitor v is spliced to the local target: the server's handler and
\* the client's leg both run proxy.
Spliced(v) == cl.leg[v].st = "splice" /\ conn[LegConn(v)].pc = "splice"

\* Neither the visitor nor the local target has closed.
BothOpen(v) == ~visitor[v].left /\ cl.leg[v].lst = "open"

\* All that either end has written has arrived at the other.
Delivered(v) == cl.leg[v].lrx = visitor[v].sent /\ visitor[v].rx = cl.leg[v].lsent

\* While the splice stands, what each end has received begins what the
\* other has written; and with both ends open, what has not arrived yet is
\* on its way, in order.
InOrderNoLoss(v) ==
    /\ Spliced(v) =>
          /\ IsPrefix(cl.leg[v].lrx, visitor[v].sent)
          /\ IsPrefix(visitor[v].rx, cl.leg[v].lsent)
    /\ (Spliced(v) /\ BothOpen(v)) =>
          /\ visitor[v].sent = cl.leg[v].lrx \o conn[LegConn(v)].down \o visitor[v].tx
          /\ cl.leg[v].lsent = visitor[v].rx \o conn[LegConn(v)].wire \o cl.leg[v].ltx

\* C9: through the splice the bytes of the visitor reach the local target
\* and the bytes of the local target reach the visitor, in order, none lost,
\* repeated or added, and they do arrive unless an end closes.  No visitor
\* but those of E2EVisitors is spliced.
C9_SpliceCarriesBytes ==
    /\ [](\A v \in Visitors : InOrderNoLoss(v))
    /\ [](\A v \in Visitors \ E2EVisitors : ~Spliced(v))
    /\ \A v \in E2EVisitors : (Spliced(v) /\ BothOpen(v)) ~> (Delivered(v) \/ ~BothOpen(v))

\* Both ends have written MaxBytes bytes and all of them have arrived, the
\* splice standing and both ends open.
C9_Witness ==
    \E v \in Visitors :
        /\ Spliced(v) /\ BothOpen(v) /\ Delivered(v)
        /\ Len(visitor[v].sent) = MaxBytes /\ Len(cl.leg[v].lsent) = MaxBytes

(***************************************************************************)
(* Properties of the client against any peer.                              *)
(***************************************************************************)
\* The frames client_handshake has consumed before the client's Hello.
HandshakeFrames == IF cl.secret # 0 THEN 1 ELSE 0

\* Whether the peer's first frame after those of the handshake is there,
\* and that frame.
HasFirstReply == Len(conn[1].out) > HandshakeFrames

FirstReply == conn[1].out[HandshakeFrames + 1]

\* The errors of new_with_tls that come from the reply to Hello.
ReplyErrors ==
    {"server error", "server requires authentication", "unexpected initial non-hello message",
     "unexpected EOF", "recv error"}

\* C13: Client::new returns a client only when the first message after its
\* Hello is Hello(p), and remote_port() is then p; when that message is an
\* Error, a Challenge, a Heartbeat or a Connection, when the stream ends (at
\* its end, or in a reset where the peer closed with bytes of the client
\* unread) or brings a malformed frame first, and when the timeout runs out,
\* it returns an error and no client.
C13_ClientIffHello ==
    /\ cl.st \in {"ready", "ended"} =>
          (HasFirstReply /\ FirstReply = Msg("Hello", cl.remote_port))
    /\ (cl.st = "failed" /\ cl.res \in ReplyErrors) =>
          (HasFirstReply => FirstReply.tag # "Hello")
    /\ cl.st = "failed" =>
          /\ cl.remote_port = 0
          /\ cl.res = "server error" => (HasFirstReply /\ FirstReply.tag = "Error")
          /\ cl.res = "server requires authentication" =>
                (HasFirstReply /\ FirstReply.tag = "Challenge")
          /\ cl.res = "unexpected initial non-hello message" =>
                (HasFirstReply /\ FirstReply.tag \in {"Heartbeat", "Connection"})
          /\ cl.res = "unexpected EOF" =>
                (~HasFirstReply /\ (conn[1].pc = "done" \/ conn[1].junk = NullFrame))
          /\ cl.res = "recv error" =>
                /\ ~HasFirstReply
                /\ conn[1].junk = Malformed \/ (conn[1].pc = "done" /\ conn[1].wire # <<>>)

\* The peer wrote a Heartbeat and then a Hello: the Heartbeat came first and
\* Client::new failed.
C13_Witness ==
    /\ cl.st = "failed" /\ cl.res = "unexpected initial non-hello message"
    /\ HasFirstReply /\ FirstReply.tag = "Heartbeat"
    /\ \E i \in 1..Len(conn[1].out) : conn[1].out[i].tag = "Hello"

\* A step in which the data leg of v ends in failure.
LegFails(v) ==
    /\ cl.leg[v].st \notin {"none", "done"}
    /\ cl'.leg[v].st = "done" /\ cl'.leg[v].res # "ok"

\* The peer has written its v-th Connection and the control loop has not
\* come to it.
Awaited(v) ==
    /\ cl.st = "ready" /\ cl.leg[v].st = "none"
    /\ Count(conn[1], "Connection") >= v

\* C14: a data leg that fails, at whatever step, leaves the control loop,
\* the control connection, the other legs and their connections as they
\* are; the control loop ends only with its own stream (at its end, in a
\* reset or at a malformed frame); and while it runs
\* it starts the leg of every Connection(id) it is sent, whatever has become
\* of the legs before.
C14_LegFailureIsLocal ==
    /\ [][\A v \in Visitors :
            LegFails(v) =>
                /\ cl'.st = cl.st /\ cl'.rd = cl.rd /\ cl'.rbuf = cl.rbuf
                /\ conn'[1] = conn[1]
                /\ \A w \in Visitors \ {v} :
                        cl'.leg[w] = cl.leg[w] /\ conn'[LegConn(w)] = conn[LegConn(w)]]_vars
    /\ [](cl.st = "ended" => cl.res \in {"ok", "recv error"})
    /\ []((cl.st = "ended" /\ cl.res = "ok") =>
            (conn[1].pc = "done" \/ conn[1].junk = NullFrame))
    /\ []((cl.st = "ended" /\ cl.res = "recv error") =>
            (conn[1].junk = Malformed \/ (conn[1].pc = "done" /\ conn[1].wire # <<>>)))
    /\ \A v \in Visitors : Awaited(v) ~> (cl.leg[v].st # "none" \/ cl.st = "ended")

\* The leg of the first id has failed, the control loop runs on and the leg
\* of the second id, started since, has reached its local target.
C14_Witness ==
    /\ cl.st = "ready"
    /\ cl.leg[1].st = "done" /\ cl.leg[1].res # "ok"
    /\ cl.leg[2].st = "splice"

(***************************************************************************)
(* Properties of the handshake.                                            *)
(***************************************************************************)
\* C16: with the same secret on both sides the two handshakes, run together
\* over a duplex that holds DuplexCap bytes each way, never fail and both
\* end in success; neither direction ever holds more than DuplexCap bytes.
C16_HandshakeOverSmallDuplex ==
    /\ [](Len(dx.s2c) <= DuplexCap /\ Len(dx.c2s) <= DuplexCap)
    /\ [](dx.csecret = cfg.secret =>
            /\ dx.srv.st \in {"none", "start", "sending", "recv", "ok"}
            /\ dx.cli.st \in {"none", "recv", "sending", "ok"})
    /\ (dx.csecret = cfg.secret /\ dx.srv.st = "start") ~> (dx.srv.st = "ok" /\ dx.cli.st = "ok")

\* Both handshakes have succeeded after a write had to wait for room.
C16_Witness ==
    /\ dx.csecret = cfg.secret /\ dx.waited
    /\ dx.srv.st = "ok" /\ dx.cli.st = "ok"

\* C17: validate(n, tag) of an authenticator is true for its own answer(n)
\* and false for every other tag, tags that are no valid hex included.
C17_OnlyTheAnswerValidates ==
    dx.verdict # "none" =>
        (dx.verdict = "true" <=> dx.tag = Answer(cfg.secret, dx.nonce))

\* C17, the part that holds: a tag validates exactly when it is valid hex for
\* the bytes of the MAC, whatever the case of its letters; the answer of an
\* authenticator built from another secret does not.
C17_ValidatesHexOfMac ==
    dx.verdict # "none" =>
        /\ dx.verdict = "true" <=>
              (HexDecode(dx.tag).ok /\ HexDecode(dx.tag).val = Mac(cfg.secret, dx.nonce))
        /\ dx.tag = Answer(cfg.secret, dx.nonce) => dx.verdict = "true"
        /\ dx.tag = Answer(dx.csecret, dx.nonce) /\ dx.csecret # cfg.secret
              => dx.verdict = "false"

\* C17, the handshake: with different secrets the two sides never both
\* succeed, and the server handshake reports invalid secret.
C17_DifferentSecretsFail ==
    /\ [](dx.csecret # cfg.secret => dx.srv.st # "ok")
    /\ (dx.csecret # cfg.secret /\ dx.srv.st = "start") ~> (dx.srv.st = "invalid secret")

(***************************************************************************)
(* Properties of the rendezvous.                                           *)
(***************************************************************************)
\* C18: the socket of an entry goes only to a data connection of the client
\* of the session that made the entry: a connection of another party that
\* sends Accept(id) never gets it, and otherwise only the evictor of the id
\* removes the entry.
C18_OnlyOwnClientTakes ==
    \A id \in Ids : \A i \in 1..Len(taken[id]) :
        taken[id][i] = 0 \/ cfg.cast[taken[id][i]] = "leg"

\* C19: the server acts on one message of a connection.  A connection for
\* which a port was tried or bound got there by Hello and never takes an
\* entry out of the map; a connection that took an entry got there by Accept
\* and never has a port tried or bound for it.
C19_OneMessagePerConnection ==
    \A c \in Conns :
        /\ conn[c].tries # 0 \/ conn[c].bound # 0 =>
              /\ conn[c].got = "Hello" /\ conn[c].took = 0
              /\ \A id \in Ids : \A i \in 1..Len(taken[id]) : taken[id][i] # c
        /\ conn[c].took # 0 \/ (\E id \in Ids : \E i \in 1..Len(taken[id]) : taken[id][i] = c) =>
              /\ conn[c].got = "Accept"
              /\ conn[c].tries = 0 /\ conn[c].bound = 0 /\ conn[c].port = 0

\* A hosting connection holds an unread Accept(2) of its peer while the entry
\* of that id is in the map; a spliced connection was sent a
\* Hello after its Accept, which went to the visitor as data.
C19_Witness ==
    \E c \in Conns, d \in Conns :
        /\ conn[c].bound # 0 /\ conn[c].pc \in {"loop", "wait", "announce"} /\ conns[2] # 0
        /\ HasPrefix(conn[c].rbuf \o conn[c].wire, SendBytes(Msg("Accept", 2)))
        /\ conn[d].pc = "splice" /\ conn[d].took # 0
        /\ visitor[conn[d].sock].rx = SendBytes(Msg("Hello", 0))

(***************************************************************************)
(* Properties of the visitor's connection.                                 *)
(***************************************************************************)
\* The data leg of v has ended in failure.
LegFailed(v) == cl.leg[v].st = "done" /\ cl.leg[v].res # "ok"

\* The server holds the socket of v: in the map, or in a splice.
Accepted(v) == visitor[v].st \in {"held", "spliced"}

\* The visitor's read returns the end of the stream: the server has dropped
\* the socket of v with every byte of the visitor read, and rx is all the
\* visitor has received before that.
ReadsEndOfStream(v) == visitor[v].st = "closed" /\ visitor[v].tx = <<>>

\* The server has dropped the socket of v with bytes of the visitor unread:
\* the connection is reset where they had arrived, and the visitor's read
\* returns the error after the bytes in rx.
ReadsReset(v) == visitor[v].st = "closed" /\ visitor[v].tx # <<>>

\* The data leg of v has ended in failure before its splice began: at the
\* connect, the handshake, the send of Accept, the dial of the local target
\* or the write of the bytes read ahead.
LegNeverSpliced(v) == LegFailed(v) /\ cl.leg[v].res # "proxy error"

C20_DroppedReadsEndOfStream ==
    \A v \in Visitors : Len(taken[v]) > 0 /\ visitor[v].st = "closed" => ReadsEndOfStream(v)

ProcessesAccept(c, id) ==
    /\ conn[c].pc \in {"handshake", "first"} /\ conn'[c].pc \notin {"handshake", "first"}
    /\ conn'[c].hs \in {"none", "ok"}
    /\ conn'[c].got = "Accept" /\ conn'[c].req = id

\* C21: the entry of an id is in the map from before Connection(id) is sent
\* until the first Accept(id) or the end of the evictor's sleep; the first
\* Accept(id) processed before the evictor has woken gets the visitor's
\* socket, and after that the evictor of the id removes nothing.
C21_AcceptInTimeFindsSocket ==
    /\ [](\A id \in Ids :
            /\ (\E c \in Conns : \E i \in 1..Len(conn[c].out) :
                    conn[c].out[i] = Msg("Connection", id)) => evictor[id] # "none"
            /\ evictor[id] = "sleeping" /\ taken[id] = <<>> => conns[id] = id)
    /\ [][\A id \in Ids, c \in Conns :
            /\ ProcessesAccept(c, id) /\ evictor[id] = "sleeping" /\ taken[id] = <<>> =>
                  /\ taken'[id] = <<c>> /\ conns'[id] = 0
                  /\ conn'[c].took = id /\ conn'[c].sock = id
            /\ taken[id] # <<>> => taken'[id] = taken[id] /\ conns'[id] = 0]_vars

\* Connection(id) was sent, an Accept(id) got the socket while the evictor
\* slept, and the evictor has since woken and found nothing.
C21_Witness ==
    \E id \in Ids, c \in Conns :
        /\ taken[id] = <<c>> /\ c # 0 /\ conn[c].took = id
        /\ evictor[id] = "done"
        /\ \E i \in 1..Len(conn[1].out) : conn[1].out[i] = Msg("Connection", id)

(***************************************************************************)
(* Properties of the bytes read ahead of a splice.                         *)
(***************************************************************************)
\* The frames the handler of c reads in a step that takes Accept(id): the
\* answer to the challenge if the handshake is still to be read, and Accept.
AcceptFrames(c, id) ==
    (IF conn[c].pc = "handshake" THEN SendBytes(Msg("Authenticate", Answer(cfg.secret, c)))
     ELSE <<>>) \o SendBytes(Msg("Accept", id))

\* What the client's leg of v has still to read of its data connection.
LegIncoming(v) == Incoming(LegConn(v), cl.leg[v].rd)

\* C22: in the step that starts the server's splice the bytes read beyond
\* the Accept frame, and only they, are written to the visitor's socket,
\* which had received nothing; from then on what the visitor has received
\* followed by what is still on the connection only grows at its end.  The
\* client's leg does the same with its read buffer and the local socket.
C22_ResidualBytesGoFirst ==
    /\ [][\A c \in Conns, id \in Ids :
            ProcessesAccept(c, id) /\ conn'[c].pc = "splice" =>
                /\ HasPrefix(conn[c].rbuf \o conn[c].wire, AcceptFrames(c, id))
                /\ visitor[id].rx = <<>> /\ conn'[c].rbuf = <<>>
                /\ visitor'[id].rx \o conn'[c].wire =
                      Drop(conn[c].rbuf \o conn[c].wire, Len(AcceptFrames(c, id)))
                /\ conn'[c].flush = visitor'[id].rx]_vars
    /\ [][\A c \in Conns :
            conn[c].pc = "splice" /\ conn'[c].pc = "splice" =>
                /\ HasPrefix(visitor'[conn[c].sock].rx, visitor[conn[c].sock].rx)
                /\ HasPrefix(visitor'[conn[c].sock].rx \o conn'[c].wire,
                             visitor[conn[c].sock].rx \o conn[c].wire)]_vars
    /\ [][\A v \in Visitors :
            /\ cl.leg[v].st = "flush" /\ cl'.leg[v].st = "splice" =>
                /\ cl'.leg[v].lrx = cl.leg[v].rbuf /\ cl'.leg[v].flush = cl.leg[v].rbuf
                /\ cl'.leg[v].rbuf = <<>>
                /\ LegIncoming(v)' = LegIncoming(v)
            /\ cl.leg[v].st = "splice" /\ cl'.leg[v].st = "splice" =>
                /\ HasPrefix(cl'.leg[v].lrx, cl.leg[v].lrx)
                /\ HasPrefix(cl'.leg[v].lrx \o LegIncoming(v)', cl.leg[v].lrx \o LegIncoming(v))]_vars
    /\ [](\A c \in Conns : conn[c].pc = "splice" => HasPrefix(visitor[conn[c].sock].rx, conn[c].flush))
    /\ [](\A v \in Visitors : cl.leg[v].st = "splice" => HasPrefix(cl.leg[v].lrx, cl.leg[v].flush))

\* The server wrote bytes it had read beyond the Accept frame to the visitor,
\* who has since received later bytes behind them.
C22_Witness ==
    \E v \in Visitors :
        /\ conn[LegConn(v)].pc = "splice" /\ conn[LegConn(v)].flush # <<>>
        /\ Len(visitor[v].rx) > Len(conn[LegConn(v)].flush)

\* The leg of a client wrote bytes it had read beyond the Challenge frame to
\* the local socket.
ClientFlushed == \E v \in Visitors : cl.leg[v].st = "splice" /\ cl.leg[v].flush # <<>>

(***************************************************************************)
(* Properties of proxy.                                                    *)
(***************************************************************************)
\* The server's proxy on connection c has returned.
Returned(c) == conn[c].pc = "done" /\ conn[c].took # 0

\* C23: proxy returns once the first of its two copies has completed,
\* whether or not the other could go on.  A splice one side of which has
\* closed returns; it returns in a step only when a copy has completed, with
\* Ok when that copy had read the end of its stream with nothing of it left
\* to write, with the error when a write to a closed side failed or the
\* read of a side that had reset the connection failed after its last byte;
\* the other copy may have bytes left and its side open; and once proxy has
\* returned no byte is moved in either direction.  The same for the
\* client's proxy between the data connection and the local socket.  The
\* splices are those of the legs of E2EVisitors.
C23_ProxyEndsWithFirstCopy ==
    /\ [](\A c \in Conns : conn[c].pc = "splice" => \E v \in E2EVisitors : c = LegConn(v))
    /\ [](\A v \in Visitors \ E2EVisitors : cl.leg[v].st = "none")
    /\ \A c \in {LegConn(v) : v \in E2EVisitors} :
        (conn[c].pc = "splice" /\ (conn[c].fin \/ visitor[conn[c].sock].left))
            ~> Returned(c)
    /\ \A v \in E2EVisitors :
        (cl.leg[v].st = "splice" /\ (cl.leg[v].lst = "closed" \/ conn[LegConn(v)].pc = "done"))
            ~> (cl.leg[v].st = "done")
    /\ [][\A c \in Conns :
            /\ conn[c].pc = "splice" /\ conn'[c].pc # "splice" =>
                  /\ Returned(c)' /\ visitor'[conn[c].sock].st = "closed"
                  /\ conn'[c].res \in {"ok", "proxy error"}
                  /\ conn'[c].res = "ok" =>
                        \/ conn[c].fin /\ conn[c].wire = <<>>
                        \/ visitor[conn[c].sock].left /\ visitor[conn[c].sock].tx = <<>>
                  /\ conn'[c].res = "proxy error" =>
                        \/ visitor[conn[c].sock].left /\ conn[c].wire # <<>>
                        \/ conn[c].fin /\ visitor[conn[c].sock].tx # <<>>
                        \/ conn[c].fin /\ conn[c].prst /\ conn[c].wire = <<>>
                        \/ /\ visitor[conn[c].sock].left /\ visitor[conn[c].sock].rst
                           /\ visitor[conn[c].sock].tx = <<>>
            /\ Returned(c) =>
                  /\ Returned(c)'
                  /\ visitor'[conn[c].sock].rx = visitor[conn[c].sock].rx
                  /\ Len(conn'[c].down) <= Len(conn[c].down)]_vars
    /\ [][\A v \in Visitors :
            /\ cl.leg[v].st = "splice" /\ cl'.leg[v].st # "splice" =>
                  /\ cl'.leg[v].st = "done" /\ cl'.leg[v].res \in {"ok", "proxy error"}
                  /\ cl'.leg[v].res = "ok" =>
                        \/ cl.leg[v].lst = "closed" /\ cl.leg[v].ltx = <<>>
                        \/ conn[LegConn(v)].pc = "done" /\ LegIncoming(v) = <<>>
                  /\ cl'.leg[v].res = "proxy error" =>
                        \/ cl.leg[v].lst = "closed" /\ LegIncoming(v) # <<>>
                        \/ conn[LegConn(v)].pc = "done" /\ cl.leg[v].ltx # <<>>
                        \/ cl.leg[v].lst = "closed" /\ cl.leg[v].lrst /\ cl.leg[v].ltx = <<>>
                        \/ /\ conn[LegConn(v)].pc = "done" /\ conn[LegConn(v)].rst
                           /\ LegIncoming(v) = <<>>
            /\ cl.leg[v].st = "done" =>
                  /\ cl'.leg[v].lrx = cl.leg[v].lrx
                  /\ Len(conn'[LegConn(v)].wire) <= Len(conn[LegConn(v)].wire)]_vars

\* The server's proxy has returned Ok at the end of the data connection,
\* every byte of which the visitor has received, with the visitor's end open
\* and bytes of the visitor not yet copied.
C23_Witness ==
    \E c \in Conns :
        /\ Returned(c) /\ conn[c].res = "ok"
        /\ ~visitor[conn[c].sock].left /\ visitor[conn[c].sock].tx # <<>>
        /\ visitor[conn[c].sock].rx # <<>>

(***************************************************************************)
(* Properties of the handler's first reads.                                *)
(***************************************************************************)
\* The handler of c waits for the answer to its challenge or for the first
\* message.
Waiting(c) == conn[c].pc \in {"handshake", "first"}

\* The peer of c holds its end open and has sent no delimiter.
Silent(c) ==
    /\ ~conn[c].fin
    /\ \A i \in 1..Len(conn[c].rbuf \o conn[c].wire) : (conn[c].rbuf \o conn[c].wire)[i] # NUL

\* C24: every handler leaves the reads that come before dispatch, whatever
\* its peer does; when the peer holds the connection open and has sent no
\* delimiter, it leaves them by returning, with nothing bound, nothing taken
\* from the map and no Hello sent, and the connection is dropped.
C24_SilentPeerTimesOut ==
    /\ \A c \in Conns : Waiting(c) ~> ~Waiting(c)
    /\ [][\A c \in Conns :
            Waiting(c) /\ Silent(c) /\ ~Waiting(c)' =>
                /\ conn'[c].pc = "done"
                /\ conn'[c].res \in {"timed out", "frame error", "send error"}
                /\ conn'[c].bound = 0 /\ conn'[c].took = 0 /\ ~SentHello(conn'[c])]_vars

\* A handler whose peer answered the challenge and then kept silent has
\* returned with the timeout error, the peer still holding the connection.
C24_Witness ==
    \E c \in Conns :
        /\ conn[c].pc = "done" /\ conn[c].res = "timed out" /\ conn[c].hs = "ok"
        /\ conn[c].peer = "open" /\ conn[c].got = ""
        /\ conn[c].out = <<Msg("Challenge", c)>>

(***************************************************************************)
(* Properties of a hosting session.                                        *)
(***************************************************************************)
\* The messages the handler of c has sent after the handshake's Challenge.
Hosted(c) ==
    IF conn[c].out # <<>> /\ conn[c].out[1].tag = "Challenge" THEN Tail(conn[c].out)
    ELSE conn[c].out

\* C25: on a connection with a bound port the first message sent is the
\* one Hello, with the port bound; after it come only Heartbeats and
\* Connections, a Heartbeat first, and before every Connection a Heartbeat.
C25_HostMessagesOrdered ==
    \A c \in Conns :
        LET out == Hosted(c) IN
        /\ \A i \in 1..Len(out) :
              /\ out[i].tag = "Hello" => i = 1 /\ out[i].val = conn[c].bound /\ conn[c].bound # 0
              /\ out[i].tag \in {"Heartbeat", "Connection"} => i > 1 /\ out[1].tag = "Hello"
              /\ out[i].tag = "Connection" => out[i - 1].tag = "Heartbeat"
        /\ conn[c].pc \in {"loop", "wait", "announce"} => out # <<>> /\ out[1].tag = "Hello"
        /\ conn[c].pc \in {"wait", "announce"} => out[Len(out)].tag = "Heartbeat"

\* A session has sent Hello, then a Heartbeat and a Connection for each of
\* two visitors.
C25_Witness ==
    \E c \in Conns :
        /\ Len(Hosted(c)) = 5
        /\ Hosted(c)[1] = Msg("Hello", conn[c].bound)
        /\ Hosted(c)[3].tag = "Connection" /\ Hosted(c)[5].tag = "Connection"

\* C26: a hosting session whose control connection the client has closed
\* ends by a failed Heartbeat, the handler returning without error, and its
\* port is no longer held.
C26_ClosedControlEndsCleanly ==
    \A c \in Conns :
        (/\ conn[c].pc = "done" /\ conn[c].peer = "closed"
         /\ SentHello(conn[c]) /\ conn[c].bound # 0 /\ conn[c].res # "accept error") =>
            conn[c].res = "ok" /\ conn[c].port = 0

\* C26, the part that holds: a hosting session ends only by a failed send on
\* a connection its peer has closed or by a failed accept, and the port it
\* held is free again.
C26_EndedSessionFreesPort ==
    \A c \in Conns :
        conn[c].pc = "done" /\ SentHello(conn[c]) /\ conn[c].bound # 0 =>
            /\ conn[c].res \in {"ok", "send error", "accept error"}
            /\ conn[c].res # "accept error" => conn[c].peer = "closed"
            /\ conn[c].port = 0
            /\ conn[c].bound \notin cfg.busy => Free(conn[c].bound)

(***************************************************************************)
(* Properties of an Accept that misses.                                    *)
(***************************************************************************)
\* C27: a handler that takes Accept(id) with no entry for id in the map
\* sends nothing and returns, its connection dropped; the map, the evictors,
\* the visitors and every other connection are as they were.
C27_MissChangesNothing ==
    [][\A c \in Conns, id \in 0..15 :
        ProcessesAccept(c, id) /\ (id \notin Ids \/ conns[id] = 0) =>
            /\ conn'[c].pc = "done" /\ conn'[c].res = "missing connection"
            /\ conn'[c].out = conn[c].out /\ conn'[c].took = 0
            /\ conns' = conns /\ taken' = taken /\ evictor' = evictor /\ visitor' = visitor
            /\ \A b \in Conns \ {c} : conn'[b] = conn[b]]_vars

\* An Accept for an id whose entry the evictor had removed has missed, and
\* the session that issued the id runs on.
C27_Witness ==
    \E c \in Conns, h \in Conns, id \in Ids :
        /\ conn[c].res = "missing connection" /\ conn[c].req = id /\ conn[c].pc = "done"
        /\ taken[id] = <<0>>
        /\ conn[h].pc \in {"loop", "wait", "announce"}
        /\ \E i \in 1..Len(conn[h].out) : conn[h].out[i] = Msg("Connection", id)

\* An Accept for an id that was never issued has missed.
MissedNeverIssued ==
    \E c \in Conns, id \in Ids :
        conn[c].res = "missing connection" /\ conn[c].req = id /\ evictor[id] = "none"

(***************************************************************************)
(* Properties of the public ports.                                         *)
(***************************************************************************)
\* The handler of c holds a listener: from its bind, through the send of
\* Hello and the hosting loop, until it returns.
Live(c) == conn[c].pc \in {"hello", "loop", "wait", "announce"}

\* The port of the Hello the handler of c sends in this step, 0 if it sends
\* none.
HelloSent(c) ==
    IF Len(conn'[c].out) > Len(conn[c].out) /\ conn'[c].out[Len(conn'[c].out)].tag = "Hello"
    THEN conn'[c].out[Len(conn'[c].out)].val ELSE 0

\* C28: no two live sessions hold the same public port, whether they have
\* sent their Hello yet or not; a session in its loop holds the port of the
\* Hello it sent; and a Hello(p) is sent in no step in which another live
\* session holds p.
C28_NoSharedPort ==
    /\ [](\A c \in Conns :
            /\ \A d \in Conns \ {c} : Live(c) /\ Live(d) => conn[c].bound # conn[d].bound
            /\ Live(c) => conn[c].bound # 0 /\ conn[c].port = conn[c].bound
            /\ conn[c].pc \in {"loop", "wait", "announce"} =>
                  \E i \in 1..Len(conn[c].out) : conn[c].out[i] = Msg("Hello", conn[c].bound))
    /\ [][\A c \in Conns : \A d \in Conns \ {c} :
            HelloSent(c) # 0 /\ Live(d) => conn[d].bound # HelloSent(c)]_vars

\* Two sessions are live on different ports, and the second Hello was
\* handled between the bind and the Hello of the first: one handler has
\* bound the port it was asked for and has not sent its Hello yet, and the
\* search of Hello(0) for the other drew that port first, failed to bind it,
\* went on to the port it holds and has answered.
C28_Witness ==
    \E c \in Conns, d \in Conns :
        /\ cfg.busy = {}
        /\ conn[c].pc = "hello" /\ conn[d].pc \in {"loop", "wait", "announce"}
        /\ conn[c].req # 0 /\ conn[c].port = conn[c].req
        /\ conn[d].req = 0 /\ conn[d].tries >= 2
        /\ conn[d].port # 0 /\ conn[d].port # conn[c].port

\* A handler bound a port, another was refused that port, and then the send
\* of the first one's Hello failed.
C28_RefusedThenSendFailed ==
    \E c \in Conns, d \in Conns :
        /\ conn[c].pc = "done" /\ conn[c].res = "send error" /\ conn[c].bound # 0
        /\ ~SentHello(conn[c])
        /\ conn[d].res = "port already in use" /\ conn[d].req = conn[c].bound

\* What the generator has yielded is a walk of its range: ports of the
\* range, none twice, all of them once it has yielded None, in at most
\* U16_MAX steps.
WalksRange ==
    /\ \A i \in 1..Len(rpg.yielded) :
        /\ rpg.min_port <= rpg.yielded[i] /\ rpg.yielded[i] <= rpg.max_port
        /\ \A j \in 1..Len(rpg.yielded) : rpg.yielded[i] = rpg.yielded[j] => i = j
    /\ rpg.st = "none" => Range(rpg.yielded) = rpg.min_port..rpg.max_port
    /\ rpg.g.consumed <= U16_MAX

\* C29: for every range with min_port <= max_port and every initial state
\* of the range the generator ends within 65535 steps and yields every port
\* of the range exactly once and nothing else.
C29_EveryPortOnce == rpg.st # "idle" => WalksRange

\* The same for the ranges that begin above port 0.
C29_EveryPortOnceAboveZero == rpg.st # "idle" /\ rpg.min_port > 0 => WalksRange

\* A generator begun inside a range of sixteen ports has walked it to its end.
C29_WalkedToTheEnd ==
    /\ rpg.st = "none" /\ rpg.min_port > 0
    /\ Len(rpg.yielded) = 16
    /\ rpg.yielded[1] \notin {rpg.min_port, rpg.max_port}

(***************************************************************************)
(* Properties of the frames read.                                          *)
(***************************************************************************)
\* The handler of connection c matches a message in this step.
Matched(c) == conn'[c].got # conn[c].got

\* The bytes connection c has unread, in the buffer and on the wire, hold a
\* terminator.
Terminated(c) == NUL \in Range(conn[c].rbuf \o conn[c].wire)

\* C30: recv yields a message only for bytes that were followed by the 0x00
\* terminator; a Hello or Accept that lacks it is never acted on.
C30_OnlyTerminatedFramesDelivered ==
    [][\A c \in Conns : Matched(c) => Terminated(c)]_vars

\* Bytes with no terminator are delivered as a message only at the end of
\* the stream.
C30_UnterminatedOnlyAtEnd ==
    [][\A c \in Conns : Matched(c) /\ ~Terminated(c) => conn[c].fin]_vars

====
